---------------------------- MODULE Spec2Model ----------------------------
(***************************************************************************)
(* Scan lifecycle of asBuilt: the scan record kept in Firestore            *)
(* (lib/db/scans), the scan orchestrator processScan with its retry        *)
(* wrapper withRetry (lib/scan/process.ts), the output parser              *)
(* (lib/scan/parse-output.ts), the context pre-check                       *)
(* (lib/scan/token-counter.ts) and the background runner of POST /api/scan.*)
(*                                                                         *)
(* Texts are sequences of tokens: the six sentinels, the three top-level   *)
(* headings, "t" for non-blank text and "_" for white space.  Every await  *)
(* of the code is one step; a persistence call may resolve or throw.       *)
(***************************************************************************)
EXTENDS Integers, Sequences, FiniteSets, TLC

\* ------------------------------------------------------------------ bounds
\* largest number of files a collection returns in the model
MaxFiles == 1
\* how many persistence calls may throw in one execution
MaxStoreFaults == 1

\* ------------------------------------------------------- program constants
MAX_RETRIES == 2
BASE_DELAY_MS == 2000
CHARS_PER_TOKEN == 4
\* WARN_THRESHOLD = 0.85, kept as the fraction WARN_NUM / WARN_DEN
WARN_NUM == 85
WARN_DEN == 100

NULL == "<null>"
NullDoc == << "<null>" >>

Providers == {"gemini", "claude", "openai"}
Tiers == {"default", "premium"}

CONTEXT_WINDOWS ==
  [p \in Providers |->
     [t \in Tiers |-> CASE p = "gemini" -> 1000000
                        [] p = "claude" -> 200000
                        [] p = "openai" -> 128000]]

LlmErrorCode == {"RATE_LIMIT", "TIMEOUT", "SERVER_ERROR", "AUTH_ERROR",
                 "INVALID_REQUEST", "CONTENT_FILTER", "CONTEXT_LENGTH", "UNKNOWN"}

Terminal == {"completed", "partial", "failed"}
ScanStatus == {"pending", "processing"} \cup Terminal

\* ------------------------------------------------------------ small helpers
IsPrefix(s, t) == Len(s) <= Len(t) /\ SubSeq(t, 1, Len(s)) = s

InSeq(x, s) == \E i \in 1..Len(s) : s[i] = x

\* Math.pow(2, n) for the small exponents withRetry uses
Pow2(n) == IF n = 0 THEN 1 ELSE IF n = 1 THEN 2 ELSE IF n = 2 THEN 4 ELSE 8

\* Math.ceil(a / b) for naturals
CeilDiv(a, b) == (a + b - 1) \div b

\* --------------------------------------------------------------- messages
\* an Error message: its fixed wording and the interpolated detail
Msg(text, detail) == [text |-> text, detail |-> detail]
NoMsg == Msg(NULL, "")

\* a progress-log line: its wording (kind) and the interpolated values
Line(kind, a, b, n, of, sec) ==
  [kind |-> kind, a |-> a, b |-> b, n |-> n, of |-> of, sec |-> sec]
Plain(kind) == Line(kind, "", "", 0, 0, 0)

\* ------------------------------------------------------------- LLM gateway
\* faulty variant: authentication failures marked retryable as well
retryable_authToo(code) ==
  code \in {"RATE_LIMIT", "TIMEOUT", "SERVER_ERROR", "AUTH_ERROR"}

\* LlmError constructor: the retryable flag is derived from the code
retryable(code) == code \in {"RATE_LIMIT", "TIMEOUT", "SERVER_ERROR"}

\* a thrown value: an LlmError carrying its code, or any other Error
NoErr == [isLlm |-> FALSE, code |-> "", msg |-> NoMsg]
LlmErr(code) == [isLlm |-> TRUE, code |-> code, msg |-> Msg("classified provider error", code)]
PlainErr(msg) == [isLlm |-> FALSE, code |-> "", msg |-> msg]

\* what generateWithLlm throws in the model: classifyError yields an LlmError
\* (every terminal code; RATE_LIMIT stands for the three retryable codes, which
\* withRetry treats alike), createLanguageModel runs outside the try and
\* throws an unclassified Error
GatewayFailures ==
  {LlmErr(c) : c \in {"RATE_LIMIT", "AUTH_ERROR", "INVALID_REQUEST",
                      "CONTENT_FILTER", "CONTEXT_LENGTH", "UNKNOWN"}}
    \cup {PlainErr(Msg("sdk setup failed", ""))}

\* the message of the Error a rejected Firestore / users write carries
StoreError == PlainErr(Msg("store unavailable", ""))

\* ----------------------------------------------------------- token counter
estimateTokens(len) == CeilDiv(len, CHARS_PER_TOKEN)

getContextWindow(provider, tier) == CONTEXT_WINDOWS[provider][tier]

\* utilizationRatio = estimatedTokens / contextWindow is compared as a fraction
checkContextLimit(len, provider, tier) ==
  LET estimatedTokens == estimateTokens(len)
      contextWindow == getContextWindow(provider, tier)
  IN [estimatedTokens |-> estimatedTokens,
      contextWindow |-> contextWindow,
      isNearLimit |-> estimatedTokens * WARN_DEN >= WARN_NUM * contextWindow,
      exceedsLimit |-> estimatedTokens >= contextWindow]

\* ------------------------------------------------------------ output parser
DELIMITERS ==
  [agent |-> [start |-> "BEGIN_AGENT", end |-> "END_AGENT"],
   human |-> [start |-> "BEGIN_HUMAN", end |-> "END_HUMAN"],
   drift |-> [start |-> "BEGIN_DRIFT", end |-> "END_DRIFT"]]

\* the three heading lines extractByHeaders looks for
HEADERS == [agent |-> "#AGENT", human |-> "#HUMAN", drift |-> "#DRIFT"]

\* String.prototype.indexOf, 1-based, 0 when absent
indexOf(text, tok, from) ==
  LET hits == {i \in from..Len(text) : text[i] = tok}
  IN IF hits = {} THEN 0 ELSE CHOOSE i \in hits : \A j \in hits : i <= j

\* faulty variant: nothing is trimmed
trim_none(text) == text

\* String.prototype.trim: white-space tokens are dropped at both ends
trim(text) ==
  LET solid == {i \in 1..Len(text) : text[i] # "_"}
  IN IF solid = {} THEN << >>
     ELSE SubSeq(text, CHOOSE i \in solid : \A j \in solid : i <= j,
                       CHOOSE i \in solid : \A j \in solid : i >= j)

\* JavaScript falsiness of a string | null
Falsy(doc) == doc = NullDoc \/ doc = << >>

\* faulty variant: a section without its end delimiter is not flagged
extractSection_neverTruncated(text, startDelimiter, endDelimiter) ==
  LET startIdx == indexOf(text, startDelimiter, 1)
      contentStart == startIdx + 1
      endIdx == indexOf(text, endDelimiter, contentStart)
      salvaged == trim(SubSeq(text, contentStart, Len(text)))
  IN IF startIdx = 0 THEN [content |-> NullDoc, truncated |-> FALSE]
     ELSE IF endIdx = 0
       THEN [content |-> IF salvaged = << >> THEN NullDoc ELSE salvaged,
             truncated |-> FALSE]
       ELSE [content |-> trim(SubSeq(text, contentStart, endIdx - 1)),
             truncated |-> FALSE]

\* faulty variant: a section without its end delimiter is not salvaged
extractSection_noSalvage(text, startDelimiter, endDelimiter) ==
  LET startIdx == indexOf(text, startDelimiter, 1)
      contentStart == startIdx + 1
      endIdx == indexOf(text, endDelimiter, contentStart)
  IN IF startIdx = 0 THEN [content |-> NullDoc, truncated |-> FALSE]
     ELSE IF endIdx = 0 THEN [content |-> NullDoc, truncated |-> TRUE]
     ELSE [content |-> trim(SubSeq(text, contentStart, endIdx - 1)),
           truncated |-> FALSE]

extractSection(text, startDelimiter, endDelimiter) ==
  LET startIdx == indexOf(text, startDelimiter, 1)
      contentStart == startIdx + 1
      endIdx == indexOf(text, endDelimiter, contentStart)
      salvaged == trim(SubSeq(text, contentStart, Len(text)))
  IN IF startIdx = 0 THEN [content |-> NullDoc, truncated |-> FALSE]
     ELSE IF endIdx = 0
       THEN [content |-> IF salvaged = << >> THEN NullDoc ELSE salvaged,
             truncated |-> TRUE]
       ELSE [content |-> trim(SubSeq(text, contentStart, endIdx - 1)),
             truncated |-> FALSE]

\* faulty variant: every span runs to the end of the text
extractByHeaders_toEnd(text) ==
  LET pos == [k \in {"agent", "human", "drift"} |-> indexOf(text, HEADERS[k], 1)]
      span(k) == IF pos[k] = 0 THEN NullDoc
                 ELSE trim(SubSeq(text, pos[k], Len(text)))
  IN [agent |-> span("agent"), human |-> span("human"), drift |-> span("drift")]

extractByHeaders(text) ==
  LET pos == [k \in {"agent", "human", "drift"} |-> indexOf(text, HEADERS[k], 1)]
      starts == {pos[k] : k \in {"agent", "human", "drift"}} \ {0}
      nextStart(p) ==
        LET later == {q \in starts : q > p}
        IN IF later = {} THEN Len(text) + 1
           ELSE CHOOSE q \in later : \A r \in later : q <= r
      span(k) == IF pos[k] = 0 THEN NullDoc
                 ELSE trim(SubSeq(text, pos[k], nextStart(pos[k]) - 1))
  IN [agent |-> span("agent"), human |-> span("human"), drift |-> span("drift")]

parseLlmOutput(rawOutput, expectDrift) ==
  LET agentExtraction == extractSection(rawOutput, DELIMITERS.agent.start, DELIMITERS.agent.end)
      humanExtraction == extractSection(rawOutput, DELIMITERS.human.start, DELIMITERS.human.end)
      driftExtraction == IF expectDrift
                         THEN extractSection(rawOutput, DELIMITERS.drift.start, DELIMITERS.drift.end)
                         ELSE [content |-> NullDoc, truncated |-> FALSE]
      anyTruncated == agentExtraction.truncated \/ humanExtraction.truncated
                        \/ driftExtraction.truncated
      w1 == (IF agentExtraction.truncated THEN << "agent truncated" >> ELSE << >>)
              \o (IF humanExtraction.truncated THEN << "human truncated" >> ELSE << >>)
              \o (IF driftExtraction.truncated THEN << "drift truncated" >> ELSE << >>)
      \* attempt 2: header sniffing, only when a primary document is missing
      sniff == Falsy(agentExtraction.content) \/ Falsy(humanExtraction.content)
      headerExtracted == extractByHeaders(rawOutput)
      agent2 == IF sniff /\ Falsy(agentExtraction.content) /\ ~Falsy(headerExtracted.agent)
                THEN headerExtracted.agent ELSE agentExtraction.content
      human2 == IF sniff /\ Falsy(humanExtraction.content) /\ ~Falsy(headerExtracted.human)
                THEN headerExtracted.human ELSE humanExtraction.content
      drift2 == IF sniff /\ expectDrift /\ Falsy(driftExtraction.content)
                     /\ ~Falsy(headerExtracted.drift)
                THEN headerExtracted.drift ELSE driftExtraction.content
      w2 == w1 \o (IF sniff THEN << "delimiter parsing failed" >> ELSE << >>)
      \* attempt 3: the whole response becomes the agent document
      whole == Falsy(agent2) /\ Falsy(human2)
      agent3 == IF whole THEN trim(rawOutput) ELSE agent2
      w3 == w2 \o (IF whole THEN << "using entire response" >> ELSE << >>)
      driftMissing == expectDrift /\ Falsy(drift2)
      w4 == w3 \o (IF Falsy(agent3) THEN << "agent missing" >> ELSE << >>)
               \o (IF Falsy(human2) THEN << "human missing" >> ELSE << >>)
               \o (IF driftMissing THEN << "drift missing" >> ELSE << >>)
  IN [agentMd |-> IF Falsy(agent3) THEN << >> ELSE agent3,
      humanMd |-> IF Falsy(human2) THEN << >> ELSE human2,
      driftMd |-> drift2,
      partial |-> anyTruncated \/ Falsy(agent3) \/ Falsy(human2) \/ driftMissing,
      warnings |-> w4,
      missingSections |->
        (IF Falsy(agent3) THEN << "AS_BUILT_AGENT.md" >> ELSE << >>)
          \o (IF Falsy(human2) THEN << "AS_BUILT_HUMAN.md" >> ELSE << >>)
          \o (IF driftMissing THEN << "PRD_DRIFT.md" >> ELSE << >>)]

getUserFacingLlmMessage(e) ==
  CASE e.code = "AUTH_ERROR" -> Msg("Authentication failed", "")
    [] e.code = "RATE_LIMIT" -> Msg("Rate limited after 3 attempts", "")
    [] e.code = "TIMEOUT" -> Msg("Request timed out after 3 attempts", "")
    [] e.code = "SERVER_ERROR" -> Msg("Server issues after 3 attempts", "")
    [] e.code = "CONTENT_FILTER" -> Msg("Content filter blocked the request", "")
    [] e.code = "CONTEXT_LENGTH" -> Msg("Codebase exceeds the context window", "")
    [] e.code = "INVALID_REQUEST" -> Msg("Invalid request", e.code)
    [] OTHER -> Msg("LLM call failed after 3 attempts", e.code)

ContextWindowExceeded == Msg("Context window exceeded", "")
NoFilesFound == Msg("No files found after filtering", "")
FileCollectionFailed == Msg("File collection failed", "walk error")

\* ------------------------------------------------------------- persistence
ZeroUsage == [promptTokens |-> 0, completionTokens |-> 0, totalTokens |-> 0]

\* the document createScan writes
createScan ==
  [status |-> "pending",
   progressLog |-> << >>,
   outputAgentMd |-> << >>,
   outputHumanMd |-> << >>,
   outputDriftMd |-> NullDoc,
   fileCount |-> 0,
   tokenUsage |-> ZeroUsage,
   completedAt |-> FALSE,
   errorMessage |-> NoMsg]

\* faulty variant: the message is not stored
updateScanStatus_noMessage(rec, status, errorMessage) ==
  [rec EXCEPT !.status = status,
              !.completedAt = IF status \in {"completed", "failed"} THEN TRUE ELSE @]

\* errorMessage = NoMsg stands for the omitted third argument
updateScanStatus(rec, status, errorMessage) ==
  [rec EXCEPT !.status = status,
              !.completedAt = IF status \in {"completed", "failed"} THEN TRUE ELSE @,
              !.errorMessage = IF errorMessage # NoMsg THEN errorMessage ELSE @]

\* faulty variant: the newest line is put first
appendProgressLog_prepend(rec, message) ==
  [rec EXCEPT !.progressLog = IF InSeq(message, @) THEN @ ELSE << message >> \o @]

\* FieldValue.arrayUnion: the element is added at the end unless already present
appendProgressLog(rec, message) ==
  [rec EXCEPT !.progressLog = IF InSeq(message, @) THEN @ ELSE Append(@, message)]

\* the third argument processScan passes (finalStatus) has no parameter here
saveScanOutputs(rec, payload) ==
  [rec EXCEPT !.outputAgentMd = payload.outputAgentMd,
              !.outputHumanMd = payload.outputHumanMd,
              !.outputDriftMd = payload.outputDriftMd,
              !.fileCount = payload.fileCount,
              !.tokenUsage = payload.tokenUsage,
              !.status = "completed",
              !.completedAt = TRUE]

mergeTokenUsage(a, b) ==
  [promptTokens |-> a.promptTokens + b.promptTokens,
   completionTokens |-> a.completionTokens + b.completionTokens,
   totalTokens |-> a.totalTokens + b.totalTokens]

\* ------------------------------------------------------------ model inputs
\* raw responses the primary call may return
Responses ==
  { << "BEGIN_AGENT", "t", "END_AGENT", "BEGIN_HUMAN", "t", "END_HUMAN" >>,
    << "BEGIN_AGENT", "t", "END_AGENT", "BEGIN_HUMAN", "t", "END_HUMAN",
       "BEGIN_DRIFT", "t", "END_DRIFT" >>,
    << "BEGIN_AGENT", "t", "END_AGENT", "BEGIN_HUMAN", "t", "END_HUMAN",
       "BEGIN_DRIFT", "_", "END_DRIFT" >>,
    << "BEGIN_AGENT", "t", "END_AGENT", "BEGIN_HUMAN", "t" >>,
    << "BEGIN_HUMAN", "t", "END_HUMAN" >>,
    << "#AGENT", "t", "#HUMAN", "t" >>,
    << "_" >> }

\* responses of the dedicated drift call
DriftResponses == { << "t" >>, << "_" >> }

FinishReasons == {"stop", "length"}

\* usage the SDK reports for the primary and for the drift call
PrimaryUsage == [promptTokens |-> 3, completionTokens |-> 2, totalTokens |-> 5]
DriftUsage == [promptTokens |-> 2, completionTokens |-> 1, totalTokens |-> 3]

\* prompt lengths in characters around the three context windows
PromptLengths == {4000, 435200, 511997, 512000, 800000, 4000000}

\* the prdContent handed to processScan: none, an empty text, a text
PrdContents == {NULL, "", "prd"}

Labels == {"LLM call", "Drift analysis"}

\* -------------------------------------------------------------------- state
VARIABLES
  scan,         \* the scan document in Firestore
  pc,           \* position of the request / background run / processScan
  prdContent,   \* ProcessScanInput.prdContent
  faultsLeft,   \* persistence calls that may still throw in this execution
  err,          \* message of the exception travelling to processScan's catch
  wr,           \* the running withRetry call: label, attempt, lastError
  loc,          \* processScan's local variables
  hist,         \* what has happened so far (gateway calls, delays, exits)
  bg,           \* runBackgroundScan: pending error, cleanup, rejection
  reader,       \* the polling client: the progress log it was last served
  walk,         \* one collectFiles call: the disk, the filter, the walk so far
  call,         \* one call of a function followed on its own (parseLlmOutput,
                \* classifyError, FileFilter.check): its arguments and its result
  store,        \* the scans collection and the users document of one user, and
                \* the requests of that user in flight
  poller        \* the CLI's pollScanProgress loop and the scan it polls

vars ==
  << scan, pc, prdContent, faultsLeft, err, wr, loc, hist, bg, reader, walk, call,
     store, poller >>

\* no collectFiles call and no call of a single function is being followed
NoWalk == [stage |-> "none"]

NoCall == [stage |-> "none"]

\* no user's requests and no polling loop are being followed
NoStore == [stage |-> "none"]

NoPoller == [stage |-> "none"]

NoParse ==
  [agentMd |-> << >>, humanMd |-> << >>, driftMd |-> NullDoc, partial |-> FALSE,
   warnings |-> << >>, missingSections |-> << >>]

NoLocals ==
  [fileCount |-> 0,
   checked |-> FALSE,
   tokenCheck |-> [isNearLimit |-> FALSE, exceedsLimit |-> FALSE],
   responded |-> FALSE,
   llmResponse |-> [text |-> << >>, finishReason |-> "stop"],
   isParsed |-> FALSE,
   parsed |-> NoParse,
   driftMd |-> NullDoc,
   totalTokenUsage |-> ZeroUsage,
   wi |-> 1,
   driftErr |-> NoMsg]

NoHistory ==
  [calls |-> [l \in Labels |-> 0],
   delays |-> [l \in Labels |-> << >>],
   exit |-> [l \in Labels |-> "none"],
   thrown |-> [l \in Labels |-> NoErr],
   first |-> [l \in Labels |-> NoErr],
   lastFailure |-> [l \in Labels |-> NoErr],
   driftStarted |-> 0,
   caught |-> FALSE,
   saved |-> FALSE,
   outcome |-> "none"]

Init ==
  /\ scan = createScan
  /\ pc = "post_upload"
  /\ prdContent \in PrdContents
  /\ faultsLeft = MaxStoreFaults
  /\ err = NoMsg
  /\ wr = [label |-> "LLM call", attempt |-> 0, lastError |-> NoErr]
  /\ loc = NoLocals
  /\ hist = NoHistory
  /\ bg = [err |-> NoMsg, started |-> FALSE, uploadsDeleted |-> FALSE, rejected |-> FALSE]
  /\ reader = << >>
  /\ walk = NoWalk
  /\ call = NoCall
  /\ store = NoStore
  /\ poller = NoPoller

\* const expectDrift = Boolean(prdContent)
expectDrift == prdContent \notin {NULL, ""}

CanFault == faultsLeft > 0

\* ------------------------------------------------- processScan: decisions
wasTruncated(l) == l.llmResponse.finishReason = "length"

isPartial(l) == l.parsed.partial \/ wasTruncated(l)

finalStatus(l) == IF isPartial(l) THEN "partial" ELSE "completed"

\* faulty variant: the parsed drift document is not looked at
ShouldRunDrift_ignoresParsed(expect, driftMd, agentMd) ==
  expect /\ ~Falsy(agentMd)

\* if (expectDrift && !driftMd && parsed.agentMd)
ShouldRunDrift(expect, driftMd, agentMd) ==
  expect /\ Falsy(driftMd) /\ ~Falsy(agentMd)

\* faulty variant: the delay does not double
BackoffDelay_fixed(attempt) == BASE_DELAY_MS

\* const delay = BASE_DELAY_MS * Math.pow(2, attempt)
BackoffDelay(attempt) == BASE_DELAY_MS * Pow2(attempt)

\* where control goes after the step-5 block: the "Generating ..." lines,
\* the partial note, then the save
AfterGenDrift(l) == IF isPartial(l) THEN "partial_note" ELSE "save"
AfterGenHuman(l) == IF ~Falsy(l.driftMd) THEN "gen_drift" ELSE AfterGenDrift(l)
AfterGenAgent(l) == IF ~Falsy(l.parsed.humanMd) THEN "gen_human" ELSE AfterGenHuman(l)
AfterDrift(l) == IF ~Falsy(l.parsed.agentMd) THEN "gen_agent" ELSE AfterGenAgent(l)
AfterWarnings(l) ==
  IF ShouldRunDrift(expectDrift, l.driftMd, l.parsed.agentMd)
  THEN "drift_missing" ELSE AfterDrift(l)

\* faulty variant: an exceeded window only warns
AfterTokenCheck_onlyWarns(tc) ==
  IF tc.exceedsLimit \/ tc.isNearLimit THEN "near" ELSE "sending"

\* after the token-estimate line: the pre-check throws, warns or lets through
AfterTokenCheck(tc) ==
  IF tc.exceedsLimit THEN "throw" ELSE IF tc.isNearLimit THEN "near" ELSE "sending"

\* the catch at process.ts:217 turns what withRetry threw into the message
PrimaryFailureMessage(e) ==
  IF e.isLlm THEN getUserFacingLlmMessage(e)
  ELSE Msg("LLM call failed after 3 attempts", e.msg.text)

\* the payload of step 7
Payload(l) ==
  [outputAgentMd |-> l.parsed.agentMd,
   outputHumanMd |-> l.parsed.humanMd,
   outputDriftMd |-> l.driftMd,
   fileCount |-> l.fileCount,
   tokenUsage |-> l.totalTokenUsage]

\* how many documents the partial note lists as missing (process.ts:306-309)
MissingAtEnd(l) ==
  (IF Falsy(l.parsed.agentMd) THEN 1 ELSE 0)
    + (IF Falsy(l.parsed.humanMd) THEN 1 ELSE 0)
    + (IF expectDrift /\ Falsy(l.driftMd) THEN 1 ELSE 0)

\* ------------------------------------------------------ progress-log lines
LogSites ==
  {"collecting", "found", "filtered", "assembling", "tokens", "near", "sending",
   "wr_fail", "wr_retry", "received", "truncated", "parsing", "warning",
   "drift_missing", "drift_complete", "drift_failed", "gen_agent", "gen_human",
   "gen_drift", "partial_note", "final", "scan_failed"}

\* the message of the log call at the current position
LogMessage ==
  CASE pc = "found" -> Line("files_found", "", "", loc.fileCount, 0, 0)
    [] pc = "filtered" -> Line("filtering_complete", "", "", loc.fileCount, 0, 0)
    [] pc = "wr_fail" ->
         Line("call_failed", wr.label, wr.lastError.code, 0, 0, 0)
    [] pc = "wr_retry" ->
         Line("retry", wr.label,
              IF wr.lastError.isLlm THEN wr.lastError.code ELSE "UNKNOWN",
              wr.attempt + 1, MAX_RETRIES + 1, BackoffDelay(wr.attempt) \div 1000)
    [] pc = "warning" -> Line("warning", loc.parsed.warnings[loc.wi], "", 0, 0, 0)
    [] pc = "drift_failed" ->
         Line("drift_failed", loc.driftErr.text, loc.driftErr.detail, 0, 0, 0)
    [] pc = "partial_note" ->
         Line("partial_note",
              IF wasTruncated(loc) THEN "truncated" ELSE "sections missing", "",
              MissingAtEnd(loc), 0, 0)
    [] pc = "final" ->
         Plain(IF isPartial(loc) THEN "Scan partially complete." ELSE "Scan complete!")
    [] pc = "scan_failed" -> Line("scan_failed", err.text, err.detail, 0, 0, 0)
    [] OTHER -> Plain(pc)

\* ------------------------------------------------- POST /api/scan, runner
\* step 4 of POST: upload the source, extract the reference document, count
\* the scan.  On failure the handler cleans up and marks the record failed,
\* both best-effort; on success it schedules runBackgroundScan.
PostPreprocess ==
  /\ pc = "post_upload"
  /\ UNCHANGED << reader, walk, call, store, poller >>
  /\ \/ /\ pc' = "bg_setup"
        /\ bg' = [bg EXCEPT !.started = TRUE]
        /\ UNCHANGED << scan, faultsLeft >>
     \/ /\ pc' = "post_failed"
        /\ bg' = [bg EXCEPT !.uploadsDeleted = TRUE]
        /\ scan' = updateScanStatus(scan, "failed", Msg("upload failed", ""))
        /\ UNCHANGED faultsLeft
     \/ /\ CanFault
        /\ pc' = "post_failed"
        /\ bg' = [bg EXCEPT !.uploadsDeleted = TRUE]
        /\ faultsLeft' = faultsLeft - 1
        /\ UNCHANGED scan
  /\ UNCHANGED << prdContent, err, wr, loc, hist >>

\* runBackgroundScan up to mkdtemp: a throw here goes straight to the
\* last-resort handler, the finally block is not yet in scope
BgSetup ==
  /\ pc = "bg_setup"
  /\ UNCHANGED << reader, walk, call, store, poller >>
  /\ \/ /\ pc' = "bg_download"
        /\ UNCHANGED bg
     \/ /\ pc' = "bg_catch"
        /\ bg' = [bg EXCEPT !.err = Msg("temp directory failed", "")]
  /\ UNCHANGED << scan, prdContent, faultsLeft, err, wr, loc, hist >>

\* download of the uploaded files into the temp directory
BgDownload ==
  /\ pc = "bg_download"
  /\ UNCHANGED << reader, walk, call, store, poller >>
  /\ \/ /\ pc' = "mark"
        /\ UNCHANGED bg
     \/ /\ pc' = "bg_finally"
        /\ bg' = [bg EXCEPT !.err = Msg("download failed", "")]
  /\ UNCHANGED << scan, prdContent, faultsLeft, err, wr, loc, hist >>

\* finally: Promise.allSettled([rm(tmpDir), deleteScanUploads(scanId)])
BgFinally ==
  /\ pc = "bg_finally"
  /\ UNCHANGED << reader, walk, call, store, poller >>
  /\ bg' = [bg EXCEPT !.uploadsDeleted = TRUE]
  /\ pc' = IF bg.err # NoMsg THEN "bg_catch" ELSE "bg_done"
  /\ UNCHANGED << scan, prdContent, faultsLeft, err, wr, loc, hist >>

\* the last-resort handler; if its write throws, runBackgroundScan rejects
\* and the after() callback only logs to the console
BgCatch ==
  /\ pc = "bg_catch"
  /\ UNCHANGED << reader, walk, call, store, poller >>
  /\ pc' = "bg_done"
  /\ \/ /\ scan' = updateScanStatus(scan, "failed", bg.err)
        /\ UNCHANGED << faultsLeft, bg >>
     \/ /\ CanFault
        /\ faultsLeft' = faultsLeft - 1
        /\ bg' = [bg EXCEPT !.rejected = TRUE]
        /\ UNCHANGED scan
  /\ UNCHANGED << prdContent, err, wr, loc, hist >>

\* ------------------------------------------------------------- processScan
\* a throw inside the main try block: control enters the catch at line 337
Raise(m) ==
  /\ pc' = "catch_status"
  /\ err' = m
  /\ hist' = [hist EXCEPT !.caught = TRUE]

\* processScan's promise rejects: the awaiting runner sees the error after
\* its finally block
Reject(m) ==
  /\ pc' = "bg_finally"
  /\ hist' = [hist EXCEPT !.outcome = "rejected"]
  /\ bg' = [bg EXCEPT !.err = m]

\* await updateScanStatus(scanId, "processing")
MarkProcessing ==
  /\ pc = "mark"
  /\ UNCHANGED << reader, walk, call, store, poller >>
  /\ \/ /\ scan' = updateScanStatus(scan, "processing", NoMsg)
        /\ pc' = "collecting"
        /\ UNCHANGED << faultsLeft, err, hist >>
     \/ /\ CanFault
        /\ faultsLeft' = faultsLeft - 1
        /\ Raise(StoreError.msg)
        /\ UNCHANGED scan
  /\ UNCHANGED << prdContent, wr, loc, bg >>

\* step 1: collectFiles throws, returns no file, or returns n files
Collect ==
  /\ pc = "collect"
  /\ UNCHANGED << reader, walk, call, store, poller >>
  /\ \/ /\ Raise(FileCollectionFailed)
        /\ UNCHANGED loc
     \/ /\ Raise(NoFilesFound)
        /\ UNCHANGED loc
     \/ /\ \E n \in 1..MaxFiles : loc' = [loc EXCEPT !.fileCount = n]
        /\ pc' = "found"
        /\ UNCHANGED << err, hist >>
  /\ UNCHANGED << scan, prdContent, faultsLeft, wr, bg >>

\* step 2: assemblePrompt.  The prompt is kept as what checkContextLimit
\* (a pure function of it, called at line 186) returns for it with the
\* provider and tier of this scan.
AssemblePrompt ==
  /\ pc = "assemble"
  /\ UNCHANGED << reader, walk, call, store, poller >>
  /\ \E len \in PromptLengths, provider \in Providers, tier \in Tiers :
       LET tc == checkContextLimit(len, provider, tier)
       IN loc' = [loc EXCEPT !.tokenCheck = [isNearLimit |-> tc.isNearLimit,
                                             exceedsLimit |-> tc.exceedsLimit]]
  /\ pc' = "tokens"
  /\ UNCHANGED << scan, prdContent, faultsLeft, err, wr, hist, bg >>

\* faulty variant: the drift call is not wrapped in its own try/catch
ThrowOut_fatal(e, how, h) ==
  /\ pc' = "catch_status"
  /\ err' = PrimaryFailureMessage(e)
  /\ hist' = [h EXCEPT !.exit[wr.label] = how, !.thrown[wr.label] = e, !.caught = TRUE]
  /\ UNCHANGED loc

\* what withRetry throws leaves it: the primary call's catch (line 217)
\* rewrites the message and rethrows into the main catch, the drift block's
\* catch (line 280) keeps the scan going.  h is hist with this step's counts.
ThrowOut(e, how, h) ==
  LET h2 == [h EXCEPT !.exit[wr.label] = how, !.thrown[wr.label] = e]
  IN IF wr.label = "LLM call"
     THEN /\ pc' = "catch_status"
          /\ err' = PrimaryFailureMessage(e)
          /\ hist' = [h2 EXCEPT !.caught = TRUE]
          /\ UNCHANGED loc
     ELSE /\ pc' = "drift_failed"
          /\ loc' = [loc EXCEPT !.driftErr = e.msg]
          /\ hist' = h2
          /\ UNCHANGED err

\* withRetry: return await fn() resolves
WrCallOk ==
  /\ pc = "wr_call"
  /\ UNCHANGED << reader, walk, call, store, poller >>
  /\ hist' = [hist EXCEPT !.calls[wr.label] = @ + 1, !.exit[wr.label] = "ok"]
  /\ IF wr.label = "LLM call"
     THEN /\ \E text \in Responses, reason \in FinishReasons :
               loc' = [loc EXCEPT !.responded = TRUE,
                                  !.llmResponse = [text |-> text, finishReason |-> reason],
                                  !.totalTokenUsage = PrimaryUsage]
          /\ pc' = "received"
     ELSE /\ \E text \in DriftResponses :
               loc' = [loc EXCEPT !.totalTokenUsage = mergeTokenUsage(@, DriftUsage),
                                  !.driftMd = trim(text)]
          /\ pc' = "drift_complete"
  /\ UNCHANGED << scan, prdContent, faultsLeft, err, wr, bg >>

\* withRetry: fn() throws; the catch decides between failing now, retrying
\* and leaving the loop with lastError
WrCallFail ==
  /\ pc = "wr_call"
  /\ UNCHANGED << reader, walk, call, store, poller >>
  /\ \E e \in GatewayFailures :
       LET h == [hist EXCEPT !.calls[wr.label] = @ + 1,
                             !.first[wr.label] = IF hist.calls[wr.label] = 0 THEN e ELSE @,
                             !.lastFailure[wr.label] = e]
       IN /\ wr' = [wr EXCEPT !.lastError = e]
          /\ IF e.isLlm /\ ~retryable(e.code)
             THEN /\ pc' = "wr_fail"
                  /\ hist' = h
                  /\ UNCHANGED << err, loc >>
             ELSE IF wr.attempt < MAX_RETRIES
             THEN /\ pc' = "wr_retry"
                  /\ hist' = h
                  /\ UNCHANGED << err, loc >>
             ELSE ThrowOut(e, "exhausted", h)
  /\ UNCHANGED << scan, prdContent, faultsLeft, bg >>

\* await new Promise((r) => setTimeout(r, delay)), then the next iteration
Backoff ==
  /\ pc = "wr_delay"
  /\ UNCHANGED << reader, walk, call, store, poller >>
  /\ hist' = [hist EXCEPT !.delays[wr.label] = Append(@, BackoffDelay(wr.attempt))]
  /\ wr' = [wr EXCEPT !.attempt = @ + 1]
  /\ pc' = "wr_call"
  /\ UNCHANGED << scan, prdContent, faultsLeft, err, loc, bg >>

\* step 4: parseLlmOutput(llmResponse.text, expectDrift); let driftMd = parsed.driftMd
ParseOutput ==
  /\ pc = "parse"
  /\ UNCHANGED << reader, walk, call, store, poller >>
  /\ LET parsed == parseLlmOutput(loc.llmResponse.text, expectDrift)
         l == [loc EXCEPT !.isParsed = TRUE, !.parsed = parsed,
                          !.driftMd = parsed.driftMd, !.wi = 1]
     IN /\ loc' = l
        /\ pc' = IF Len(parsed.warnings) > 0 THEN "warning" ELSE AfterWarnings(l)
  /\ UNCHANGED << scan, prdContent, faultsLeft, err, wr, hist, bg >>

\* buildDriftPrompt reads its template from disk and may throw inside the
\* drift try block; otherwise the drift call starts
BuildDriftPrompt ==
  /\ pc = "build_drift"
  /\ UNCHANGED << reader, walk, call, store, poller >>
  /\ \/ /\ wr' = [label |-> "Drift analysis", attempt |-> 0, lastError |-> NoErr]
        /\ pc' = "wr_call"
        /\ UNCHANGED loc
     \/ /\ loc' = [loc EXCEPT !.driftErr = Msg("drift template unreadable", "")]
        /\ pc' = "drift_failed"
        /\ UNCHANGED wr
  /\ UNCHANGED << scan, prdContent, faultsLeft, err, hist, bg >>

\* step 7: await saveScanOutputs(scanId, payload, finalStatus)
SaveOutputs ==
  /\ pc = "save"
  /\ UNCHANGED << reader, walk, call, store, poller >>
  /\ \/ /\ scan' = saveScanOutputs(scan, Payload(loc))
        /\ hist' = [hist EXCEPT !.saved = TRUE]
        /\ pc' = "last_active"
        /\ UNCHANGED << faultsLeft, err >>
     \/ /\ CanFault
        /\ faultsLeft' = faultsLeft - 1
        /\ Raise(StoreError.msg)
        /\ UNCHANGED scan
  /\ UNCHANGED << prdContent, wr, loc, bg >>

\* await updateLastActive(userId): a write to the users collection
UpdateLastActive ==
  /\ pc = "last_active"
  /\ UNCHANGED << reader, walk, call, store, poller >>
  /\ \/ /\ pc' = "final"
        /\ UNCHANGED << faultsLeft, err, hist >>
     \/ /\ CanFault
        /\ faultsLeft' = faultsLeft - 1
        /\ Raise(StoreError.msg)
  /\ UNCHANGED << scan, prdContent, wr, loc, bg >>

\* catch: await updateScanStatus(scanId, "failed", errorMessage)
CatchStatus ==
  /\ pc = "catch_status"
  /\ UNCHANGED << reader, walk, call, store, poller >>
  /\ \/ /\ scan' = updateScanStatus(scan, "failed", err)
        /\ pc' = "scan_failed"
        /\ UNCHANGED << faultsLeft, hist, bg >>
     \/ /\ CanFault
        /\ faultsLeft' = faultsLeft - 1
        /\ Reject(StoreError.msg)
        /\ UNCHANGED scan
  /\ UNCHANGED << prdContent, err, wr, loc >>

\* await log(scanId, message) resolves: the line is stored and processScan
\* runs on to its next await
LogOk ==
  /\ pc \in LogSites
  /\ UNCHANGED << reader, walk, call, store, poller >>
  /\ scan' = appendProgressLog(scan, LogMessage)
  /\ UNCHANGED << prdContent, faultsLeft >>
  /\ CASE pc = "tokens" ->
            /\ loc' = [loc EXCEPT !.checked = TRUE]
            /\ IF AfterTokenCheck(loc.tokenCheck) = "throw"
               THEN Raise(ContextWindowExceeded) /\ UNCHANGED << wr, bg >>
               ELSE /\ pc' = AfterTokenCheck(loc.tokenCheck)
                    /\ UNCHANGED << err, wr, hist, bg >>
       [] pc = "sending" ->
            /\ wr' = [label |-> "LLM call", attempt |-> 0, lastError |-> NoErr]
            /\ pc' = "wr_call"
            /\ UNCHANGED << err, loc, hist, bg >>
       [] pc = "wr_fail" ->
            ThrowOut(wr.lastError, "nonretryable", hist) /\ UNCHANGED << wr, bg >>
       [] pc = "warning" ->
            /\ loc' = [loc EXCEPT !.wi = @ + 1]
            /\ pc' = IF loc.wi < Len(loc.parsed.warnings) THEN "warning"
                     ELSE AfterWarnings(loc)
            /\ UNCHANGED << err, wr, hist, bg >>
       [] pc = "drift_missing" ->
            /\ hist' = [hist EXCEPT !.driftStarted = @ + 1]
            /\ pc' = "build_drift"
            /\ UNCHANGED << err, wr, loc, bg >>
       [] pc \in {"final", "scan_failed"} ->
            /\ hist' = [hist EXCEPT !.outcome = "resolved"]
            /\ pc' = "bg_finally"
            /\ UNCHANGED << err, wr, loc, bg >>
       [] OTHER ->
            /\ pc' = CASE pc = "collecting" -> "collect"
                       [] pc = "found" -> "filtered"
                       [] pc = "filtered" -> "assembling"
                       [] pc = "assembling" -> "assemble"
                       [] pc = "near" -> "sending"
                       [] pc = "wr_retry" -> "wr_delay"
                       [] pc = "received" ->
                            IF wasTruncated(loc) THEN "truncated" ELSE "parsing"
                       [] pc = "truncated" -> "parsing"
                       [] pc = "parsing" -> "parse"
                       [] pc \in {"drift_complete", "drift_failed"} -> AfterDrift(loc)
                       [] pc = "gen_agent" -> AfterGenAgent(loc)
                       [] pc = "gen_human" -> AfterGenHuman(loc)
                       [] pc = "gen_drift" -> AfterGenDrift(loc)
                       [] pc = "partial_note" -> "save"
            /\ UNCHANGED << err, wr, loc, hist, bg >>

\* await log(scanId, message) throws: inside withRetry's catch the error
\* leaves withRetry, inside processScan's catch it rejects the promise,
\* anywhere else it enters processScan's catch
LogThrows ==
  /\ pc \in LogSites
  /\ UNCHANGED << reader, walk, call, store, poller >>
  /\ CanFault
  /\ faultsLeft' = faultsLeft - 1
  /\ UNCHANGED << scan, prdContent >>
  /\ CASE pc \in {"wr_fail", "wr_retry"} ->
            ThrowOut(StoreError, "logfault", hist) /\ UNCHANGED << wr, bg >>
       [] pc = "scan_failed" ->
            Reject(StoreError.msg) /\ UNCHANGED << err, wr, loc >>
       [] OTHER ->
            Raise(StoreError.msg) /\ UNCHANGED << wr, loc, bg >>

Next ==
  \/ PostPreprocess
  \/ BgSetup
  \/ BgDownload
  \/ BgFinally
  \/ BgCatch
  \/ MarkProcessing
  \/ Collect
  \/ AssemblePrompt
  \/ WrCallOk
  \/ WrCallFail
  \/ Backoff
  \/ ParseOutput
  \/ BuildDriftPrompt
  \/ SaveOutputs
  \/ UpdateLastActive
  \/ CatchStatus
  \/ LogOk
  \/ LogThrows

Spec == Init /\ [][Next]_vars

TypeOK ==
  /\ scan.status \in ScanStatus
  /\ faultsLeft \in 0..MaxStoreFaults
  /\ wr.label \in Labels
  /\ wr.attempt \in 0..MAX_RETRIES

\* ------------------------------------------------------- the polling reader
\* lines a run may pass to log(); a line may be logged more than once
PollLines ==
  {Plain("collecting"), Plain("assembling"), Plain("sending"), Plain("parsing"),
   Plain("Scan complete!")}

\* await log(scanId, message), seen from the record: the one writer of a scan
\* id appends line after line
LogLine ==
  /\ \E message \in PollLines : scan' = appendProgressLog(scan, message)
  /\ UNCHANGED << pc, prdContent, faultsLeft, err, wr, loc, hist, bg, reader, walk, call, store, poller >>

\* GET /api/scan/[id] serves getScan's snapshot of the record; the client
\* keeps the progress log of the response
Poll ==
  /\ reader' = scan.progressLog
  /\ UNCHANGED << scan, pc, prdContent, faultsLeft, err, wr, loc, hist, bg, walk, call, store, poller >>

NextPoll ==
  \/ LogLine
  \/ Poll

\* the record of one scan id, its single writer and a client polling it
SpecPoll == Init /\ [][NextPoll]_vars

\* ========================================================== the file filter
\* A file or directory name is the sequence of its pieces between dots
\* (".env.local" is <<"", "env", "local">>, "src" is <<"src">>); a relative
\* path is the sequence of its names between slashes.
HARD_BLOCKED_NAMES ==
  {<<"", "env">>}

HARD_BLOCKED_PREFIX == <<"", "env", "">>

\* String.startsWith on names: the pieces before the last piece of the prefix
\* are equal, and the last piece of the prefix is empty (the prefix ends in a
\* dot) or is the piece of the name at that place
startsWith(name, prefix) ==
  /\ Len(name) >= Len(prefix)
  /\ \A i \in 1..(Len(prefix) - 1) : name[i] = prefix[i]
  /\ prefix[Len(prefix)] = "" \/ name[Len(prefix)] = prefix[Len(prefix)]

\* String.endsWith on names, for a suffix that begins with a dot
endsWith(name, suffix) ==
  /\ Len(name) >= Len(suffix)
  /\ \A i \in 2..Len(suffix) : name[Len(name) - Len(suffix) + i] = suffix[i]

isHardBlocked_exactOnly(filename) == filename \in HARD_BLOCKED_NAMES

isHardBlocked(filename) ==
  \/ filename \in HARD_BLOCKED_NAMES
  \/ startsWith(filename, HARD_BLOCKED_PREFIX)

EXCLUDED_DIRS ==
  {<<"node_modules">>, <<"bower_components">>, <<"", "pnp">>, <<"", "yarn">>,
   <<"vendor">>, <<"", "git">>, <<"", "svn">>, <<"", "hg">>, <<"", "fossil">>,
   <<"dist">>, <<"build">>, <<"out">>, <<"", "next">>, <<"", "nuxt">>,
   <<"", "output">>, <<"", "svelte-kit">>, <<"target">>, <<"bin">>, <<"obj">>,
   <<"__pycache__">>, <<"", "pytest_cache">>, <<"", "mypy_cache">>,
   <<"", "ruff_cache">>, <<"coverage">>, <<"", "nyc_output">>, <<"htmlcov">>,
   <<"", "tox">>, <<"", "venv">>, <<"venv">>, <<"env">>, <<"", "virtualenv">>,
   <<"", "conda">>, <<"", "idea">>, <<"", "vscode">>, <<"", "vs">>,
   <<"", "settings">>, <<"", "DS_Store">>, <<"", "docker">>,
   <<"", "terraform">>, <<"", "serverless">>, <<"", "vercel">>,
   <<"", "firebase">>, <<"tmp">>, <<"temp">>, <<"", "cache">>,
   <<"", "parcel-cache">>, <<"", "turbo">>}

EXCLUDED_EXTENSIONS ==
  {<<"", "exe">>, <<"", "dll">>, <<"", "so">>, <<"", "dylib">>, <<"", "o">>,
   <<"", "obj">>, <<"", "a">>, <<"", "lib">>, <<"", "class">>, <<"", "jar">>,
   <<"", "war">>, <<"", "ear">>, <<"", "pyc">>, <<"", "pyo">>, <<"", "pyd">>,
   <<"", "wasm">>, <<"", "png">>, <<"", "jpg">>, <<"", "jpeg">>,
   <<"", "gif">>, <<"", "bmp">>, <<"", "ico">>, <<"", "webp">>, <<"", "svg">>,
   <<"", "mp4">>, <<"", "avi">>, <<"", "mov">>, <<"", "wmv">>, <<"", "flv">>,
   <<"", "webm">>, <<"", "mp3">>, <<"", "wav">>, <<"", "ogg">>,
   <<"", "flac">>, <<"", "aac">>, <<"", "ttf">>, <<"", "otf">>,
   <<"", "woff">>, <<"", "woff2">>, <<"", "eot">>, <<"", "zip">>,
   <<"", "tar">>, <<"", "gz">>, <<"", "bz2">>, <<"", "rar">>, <<"", "7z">>,
   <<"", "tgz">>, <<"", "sqlite">>, <<"", "sqlite3">>, <<"", "db">>,
   <<"", "mdb">>, <<"", "accdb">>, <<"", "map">>, <<"", "min", "js">>,
   <<"", "min", "css">>, <<"", "pem">>, <<"", "key">>, <<"", "crt">>,
   <<"", "cer">>, <<"", "p12">>, <<"", "pfx">>, <<"", "jks">>, <<"", "pdf">>,
   <<"", "doc">>, <<"", "docx">>, <<"", "xls">>, <<"", "xlsx">>,
   <<"", "ppt">>, <<"", "pptx">>, <<"", "sketch">>, <<"", "fig">>,
   <<"", "psd">>, <<"", "ai">>, <<"", "log">>}

EXCLUDED_COMPOUND_EXTENSIONS ==
  {<<"", "js", "map">>, <<"", "css", "map">>}

EXCLUDED_SUFFIXES ==
  {<<"", "bundle", "js">>, <<"", "chunk", "js">>}

LOCK_FILES ==
  {<<"package-lock", "json">>, <<"yarn", "lock">>, <<"pnpm-lock", "yaml">>,
   <<"Pipfile", "lock">>, <<"poetry", "lock">>, <<"composer", "lock">>,
   <<"Gemfile", "lock">>, <<"Cargo", "lock">>, <<"go", "sum">>}

EXCLUDED_FILENAMES ==
  {<<"", "eslintcache">>, <<"", "stylelintcache">>, <<"Thumbs", "db">>,
   <<"Desktop", "ini">>, <<"ehthumbs", "db">>, <<"", "DS_Store">>,
   <<"", "project">>, <<"", "classpath">>}

\* names of the disk that end in "~"
TildeNames == {<<"notes", "txt~">>}

isEditorTempFile(filename) ==
  \/ endsWith(filename, <<"", "swp">>)
  \/ endsWith(filename, <<"", "swo">>)
  \/ filename \in TildeNames

isEggInfoDir(name) == endsWith(name, <<"", "egg-info">>)

LARGE_DATA_EXTENSIONS ==
  {<<"", "csv">>, <<"", "xml">>}

CONFIG_JSON_NAMES ==
  {<<"package", "json">>, <<"tsconfig", "json">>, <<"jsconfig", "json">>,
   <<"composer", "json">>, <<"", "eslintrc", "json">>,
   <<"", "prettierrc", "json">>, <<"firebase", "json">>, <<"vercel", "json">>}

SIZE_THRESHOLD == 1048576

HIGH_SIGNAL_NAMES ==
  {<<"package", "json">>, <<"requirements", "txt">>, <<"setup", "py">>,
   <<"setup", "cfg">>, <<"pyproject", "toml">>, <<"Cargo", "toml">>,
   <<"go", "mod">>, <<"Gemfile">>, <<"composer", "json">>,
   <<"build", "gradle">>, <<"pom", "xml">>, <<"CMakeLists", "txt">>,
   <<"Makefile">>, <<"tsconfig", "json">>, <<"jsconfig", "json">>,
   <<"Dockerfile">>, <<"vercel", "json">>, <<"netlify", "toml">>,
   <<"fly", "toml">>, <<"firebase", "json">>, <<"", "firebaserc">>,
   <<"README", "md">>, <<"CHANGELOG", "md">>, <<"CONTRIBUTING", "md">>}

HIGH_SIGNAL_PREFIXES ==
  {<<"next", "config">>, <<"nuxt", "config">>, <<"vite", "config">>,
   <<"webpack", "config">>, <<"tailwind", "config">>, <<"postcss", "config">>,
   <<"", "eslintrc">>, <<"", "prettierrc">>, <<"docker-compose">>,
   <<"drizzle", "config">>}

\* path.basename
basename(relativePath) == relativePath[Len(relativePath)]

\* path.extname: from the last dot of the name to its end, empty when the
\* name has no dot or its only dot is its first character
extname(filename) ==
  IF Len(filename) < 2 \/ (Len(filename) = 2 /\ filename[1] = "")
    THEN <<"">>
    ELSE <<"", filename[Len(filename)]>>

\* String.toLowerCase on an extension
toLowerCase(ext) ==
  IF ext = <<"", "JSON">> THEN <<"", "json">>
  ELSE IF ext = <<"", "CSV">> THEN <<"", "csv">>
  ELSE IF ext = <<"", "PNG">> THEN <<"", "png">>
  ELSE ext

isHighSignal(filename, relativePath) ==
  \/ filename \in HIGH_SIGNAL_NAMES
  \/ \E prefix \in HIGH_SIGNAL_PREFIXES : startsWith(filename, prefix)
  \/ /\ Len(relativePath) >= 3
     /\ relativePath[1] = <<"", "github">>
     /\ relativePath[2] = <<"workflows">>
     /\ endsWith(filename, <<"", "yml">>)
  \/ relativePath = << <<"prisma">>, <<"schema", "prisma">> >>
  \/ /\ Len(relativePath) >= 2
     /\ relativePath[1] = <<"docs">>
     /\ endsWith(filename, <<"", "md">>)

shouldEnterDirectory_noEggInfo(dirName) == dirName \notin EXCLUDED_DIRS

shouldEnterDirectory_all(dirName) == TRUE

\* FileFilter.shouldEnterDirectory
shouldEnterDirectory(dirName) ==
  ~ (dirName \in EXCLUDED_DIRS \/ isEggInfoDir(dirName))

Excluded == [included |-> FALSE, highSignal |-> FALSE]

\* faulty variant: the size rules exclude a file already at the threshold
check_atThreshold(subdir, gitignore, relativePath, sizeBytes) ==
  LET filename == basename(relativePath)
      ext == toLowerCase(extname(filename))
  IN IF isHardBlocked(filename) THEN Excluded
     ELSE IF subdir # << >> /\ ~ IsPrefix(subdir, relativePath) THEN Excluded
     ELSE IF gitignore.present /\ relativePath \in gitignore.ignores THEN Excluded
     ELSE IF filename \in LOCK_FILES THEN Excluded
     ELSE IF filename \in EXCLUDED_FILENAMES THEN Excluded
     ELSE IF isEditorTempFile(filename) THEN Excluded
     ELSE IF \E compoundExt \in EXCLUDED_COMPOUND_EXTENSIONS :
               endsWith(filename, compoundExt) THEN Excluded
     ELSE IF \E suffix \in EXCLUDED_SUFFIXES : endsWith(filename, suffix)
       THEN Excluded
     ELSE IF ext \in EXCLUDED_EXTENSIONS THEN Excluded
     ELSE IF ext \in LARGE_DATA_EXTENSIONS /\ sizeBytes >= SIZE_THRESHOLD
       THEN Excluded
     ELSE IF /\ ext = <<"", "json">>
             /\ sizeBytes >= SIZE_THRESHOLD
             /\ filename \notin CONFIG_JSON_NAMES THEN Excluded
     ELSE IF ext = <<"", "sql">> /\ sizeBytes >= SIZE_THRESHOLD THEN Excluded
     ELSE [included |-> TRUE, highSignal |-> isHighSignal(filename, relativePath)]

\* FileFilter.check of the filter created for a subdirectory (<< >> when none
\* was given) and a loaded .gitignore: present tells whether the file was
\* read, ignores is the set of paths its rules (negations included) ignore
check(subdir, gitignore, relativePath, sizeBytes) ==
  LET filename == basename(relativePath)
      ext == toLowerCase(extname(filename))
  IN IF isHardBlocked(filename) THEN Excluded
     ELSE IF subdir # << >> /\ ~ IsPrefix(subdir, relativePath) THEN Excluded
     ELSE IF gitignore.present /\ relativePath \in gitignore.ignores THEN Excluded
     ELSE IF filename \in LOCK_FILES THEN Excluded
     ELSE IF filename \in EXCLUDED_FILENAMES THEN Excluded
     ELSE IF isEditorTempFile(filename) THEN Excluded
     ELSE IF \E compoundExt \in EXCLUDED_COMPOUND_EXTENSIONS :
               endsWith(filename, compoundExt) THEN Excluded
     ELSE IF \E suffix \in EXCLUDED_SUFFIXES : endsWith(filename, suffix)
       THEN Excluded
     ELSE IF ext \in EXCLUDED_EXTENSIONS THEN Excluded
     ELSE IF ext \in LARGE_DATA_EXTENSIONS /\ sizeBytes > SIZE_THRESHOLD
       THEN Excluded
     ELSE IF /\ ext = <<"", "json">>
             /\ sizeBytes > SIZE_THRESHOLD
             /\ filename \notin CONFIG_JSON_NAMES THEN Excluded
     ELSE IF ext = <<"", "sql">> /\ sizeBytes > SIZE_THRESHOLD THEN Excluded
     ELSE [included |-> TRUE, highSignal |-> isHighSignal(filename, relativePath)]

\* =========================================================== the collector
\* most files of a disk the collector is run on, and most paths a loaded
\* .gitignore ignores
MaxEntries == 4

MaxIgnored == 1

EnvFile == << <<"", "env">> >>

GitignoreFile == << <<"", "gitignore">> >>

PackageJson == << <<"package", "json">> >>

SrcIndexTs == << <<"src">>, <<"index", "ts">> >>

NodeModulesIndexJs == << <<"node_modules">>, <<"pkg">>, <<"index", "js">> >>

ConfigEnvLocal == << <<"config">>, <<"", "env", "local">> >>

\* the files a project may hold, with the size each has unless it is the odd
\* file of the disk
ProjectFiles == {EnvFile, PackageJson, SrcIndexTs, NodeModulesIndexJs, ConfigEnvLocal}

\* two file names that are canonically equivalent Unicode strings and differ
\* in their code units: "caf" followed by U+00E9, and "cafe" followed by the
\* combining accent U+0301
CafeComposed == << <<"caf+U00E9", "md">> >>

CafeDecomposed == << <<"cafe+U0301", "md">> >>

EggInfoFile == << <<"asbuilt", "egg-info">>, <<"PKG-INFO">> >>

SrcBuildMainJs == << <<"src">>, <<"build">>, <<"main", "js">> >>

\* files a project may hold besides some of ProjectFiles
ExtraFiles ==
  {{CafeComposed, CafeDecomposed}, {EggInfoFile}, {SrcBuildMainJs},
   {EggInfoFile, SrcBuildMainJs}}

NominalSize(path) ==
  CASE path = EnvFile -> 50
    [] path = PackageJson -> 200
    [] path = SrcIndexTs -> 500
    [] path = NodeModulesIndexJs -> 10240
    [] OTHER -> 120

\* what reading a file meets: text; a NUL within the first 8192 characters;
\* control characters in more than a tenth of the content but no NUL; a
\* readFile that throws; a stat that throws
Contents == {"text", "nul", "control", "unreadable", "vanished"}

File(path, size, content) == [path |-> path, size |-> size, content |-> content]

\* the odd files of the projects: a file over the size threshold, a binary
\* file, a file that cannot be read, a file gone before stat
OddFiles ==
  {File(EnvFile, SIZE_THRESHOLD + 1, "text"),
   File(ConfigEnvLocal, SIZE_THRESHOLD + 1, "text"),
   File(PackageJson, SIZE_THRESHOLD + 1, "text"),
   File(SrcIndexTs, NominalSize(SrcIndexTs), "nul"),
   File(SrcIndexTs, NominalSize(SrcIndexTs), "control"),
   File(SrcIndexTs, NominalSize(SrcIndexTs), "unreadable"),
   File(PackageJson, NominalSize(PackageJson), "vanished")}

\* the disks over a set of paths: every file nominal and text, or one odd file
DisksOver(S) ==
  LET plain == {File(p, NominalSize(p), "text") : p \in S}
  IN {plain} \cup
     {{g \in plain : g.path # f.path} \cup {f} : f \in {o \in OddFiles : o.path \in S}}

\* CollectOptions.subdirectory as given: none, "config", "config/"
Subdirectories == {<< >>, << <<"config">> >>, << <<"config">>, <<"">> >>}

\* subdirectory?.replace(/^\/+|\/+$/g, "") || null
RECURSIVE stripSlashes(_)
stripSlashes(subdirectory) ==
  IF subdirectory = << >> THEN << >>
  ELSE IF subdirectory[1] = <<"">> THEN stripSlashes(Tail(subdirectory))
  ELSE IF subdirectory[Len(subdirectory)] = <<"">>
    THEN stripSlashes(SubSeq(subdirectory, 1, Len(subdirectory) - 1))
  ELSE subdirectory

NoGitignore == [present |-> FALSE, ignores |-> {}]

\* the .gitignore files of a project over the paths S: none, or one whose
\* rules end up ignoring some of the paths a rule is written for
Ignorable == {ConfigEnvLocal, SrcIndexTs, PackageJson}

Gitignores(S) ==
  {NoGitignore} \cup
  {[present |-> TRUE, ignores |-> I] :
     I \in {J \in SUBSET (S \cap Ignorable) : Cardinality(J) <= MaxIgnored}}

\* readdir(dirPath): the entries of a directory of the disk
Entries(disk, dirPath) ==
  {SubSeq(f.path, 1, Len(dirPath) + 1) :
     f \in {g \in disk : Len(g.path) > Len(dirPath) /\ IsPrefix(dirPath, g.path)}}

isFile(disk, entry) == \E f \in disk : f.path = entry

FileAt(disk, entry) == CHOOSE f \in disk : f.path = entry

\* String.localeCompare on the relative paths of the projects: the paths in
\* collation order, the paths that compare equal (canonically equivalent
\* strings) in one place
CollationOrder ==
  << {EnvFile}, {GitignoreFile}, {EggInfoFile}, {CafeComposed, CafeDecomposed},
     {ConfigEnvLocal}, {NodeModulesIndexJs}, {PackageJson}, {SrcBuildMainJs},
     {SrcIndexTs} >>

CollationPlace(path) == CHOOSE i \in 1..Len(CollationOrder) : path \in CollationOrder[i]

Place(x, order) == CHOOSE i \in 1..Len(order) : order[i] = x

localeCompare(a, b) == CollationPlace(a) - CollationPlace(b)

\* the comparator of files.sort: negative when a goes before b
compareFiles_byPathOnly(a, b) == localeCompare(a.relativePath, b.relativePath)

compareFiles(a, b) ==
  IF a.highSignal /\ ~ b.highSignal THEN -1
  ELSE IF ~ a.highSignal /\ b.highSignal THEN 1
  ELSE localeCompare(a.relativePath, b.relativePath)

\* Array.prototype.sort with a comparator (stable)
RECURSIVE insertFile(_, _)
insertFile(x, sorted) ==
  IF sorted = << >> THEN << x >>
  ELSE IF compareFiles(x, sorted[Len(sorted)]) >= 0 THEN Append(sorted, x)
  ELSE Append(insertFile(x, SubSeq(sorted, 1, Len(sorted) - 1)), sorted[Len(sorted)])

RECURSIVE sortFiles(_)
sortFiles(files) ==
  IF files = << >> THEN << >>
  ELSE insertFile(files[Len(files)], sortFiles(SubSeq(files, 1, Len(files) - 1)))

\* a line of tree: a relative path, with a trailing slash for a directory
TreeLine(path, dir) == [path |-> path, dir |-> dir]

\* Array.prototype.sort without a comparator orders the lines of tree by code
\* units; the lines of the projects in that order
CodeUnitOrder ==
  << TreeLine(EnvFile, FALSE), TreeLine(GitignoreFile, FALSE),
     TreeLine(<< <<"asbuilt", "egg-info">> >>, TRUE), TreeLine(EggInfoFile, FALSE),
     TreeLine(CafeDecomposed, FALSE), TreeLine(CafeComposed, FALSE),
     TreeLine(<< <<"config">> >>, TRUE), TreeLine(ConfigEnvLocal, FALSE),
     TreeLine(<< <<"node_modules">> >>, TRUE),
     TreeLine(<< <<"node_modules">>, <<"pkg">> >>, TRUE),
     TreeLine(NodeModulesIndexJs, FALSE),
     TreeLine(PackageJson, FALSE),
     TreeLine(<< <<"src">> >>, TRUE),
     TreeLine(<< <<"src">>, <<"build">> >>, TRUE), TreeLine(SrcBuildMainJs, FALSE),
     TreeLine(SrcIndexTs, FALSE) >>

RECURSIVE insertLine(_, _)
insertLine(x, sorted) ==
  IF sorted = << >> THEN << x >>
  ELSE IF Place(x, CodeUnitOrder) >= Place(sorted[Len(sorted)], CodeUnitOrder)
    THEN Append(sorted, x)
  ELSE Append(insertLine(x, SubSeq(sorted, 1, Len(sorted) - 1)), sorted[Len(sorted)])

\* faulty variant: the tree is returned in the order the walk pushed it
sortTree_asWalked(tree) == tree

RECURSIVE sortTree(_)
sortTree(tree) ==
  IF tree = << >> THEN << >>
  ELSE insertLine(tree[Len(tree)], sortTree(SubSeq(tree, 1, Len(tree) - 1)))

RECURSIVE totalSize(_)
totalSize(files) ==
  IF files = << >> THEN 0 ELSE files[1].sizeBytes + totalSize(Tail(files))

NoResult == [files |-> << >>, tree |-> << >>, excludedCount |-> 0, totalSizeBytes |-> 0]

\* collectFiles has created the filter and is about to walk the project root
StartWalk(disk, subdirectory, gitignore) ==
  [stage |-> "walking",
   disk |-> IF gitignore.present
              THEN disk \cup {File(GitignoreFile, NominalSize(GitignoreFile), "text")}
              ELSE disk,
   subdir |-> stripSlashes(subdirectory),
   gitignore |-> gitignore,
   stack |-> << << >> >>,
   seen |-> {},
   checked |-> {},
   files |-> << >>,
   tree |-> << >>,
   excluded |-> 0,
   result |-> NoResult]

InitCollect ==
  /\ scan = createScan
  /\ pc = "post_upload"
  /\ prdContent = NULL
  /\ faultsLeft = MaxStoreFaults
  /\ err = NoMsg
  /\ wr = [label |-> "LLM call", attempt |-> 0, lastError |-> NoErr]
  /\ loc = NoLocals
  /\ hist = NoHistory
  /\ bg = [err |-> NoMsg, started |-> FALSE, uploadsDeleted |-> FALSE, rejected |-> FALSE]
  /\ reader = << >>
  /\ call = NoCall
  /\ store = NoStore
  /\ poller = NoPoller
  /\ \/ \E S \in {T \in SUBSET ProjectFiles : Cardinality(T) <= MaxEntries} :
          \E disk \in DisksOver(S), subdirectory \in Subdirectories,
             gitignore \in Gitignores(S) :
            walk = StartWalk(disk, subdirectory, gitignore)
     \/ \E X \in ExtraFiles :
          \E S \in {T \in SUBSET ProjectFiles : Cardinality(T \cup X) <= MaxEntries} :
            walk = StartWalk({File(p, NominalSize(p), "text") : p \in S \cup X},
                             << >>, NoGitignore)

\* one turn of the loop of walkDirectory over the directory on top of the
\* stack: the entries come in whatever order readdir gives them
WalkEntry ==
  /\ walk.stage = "walking"
  /\ walk.stack # << >>
  /\ \E entry \in Entries(walk.disk, walk.stack[Len(walk.stack)]) \ walk.seen :
       LET name == basename(entry)
           seen == walk.seen \cup {entry}
       IN IF ~ isFile(walk.disk, entry)
            THEN IF ~ shouldEnterDirectory(name)
                   THEN walk' = [walk EXCEPT !.seen = seen]
                   ELSE walk' = [walk EXCEPT !.seen = seen,
                                             !.tree = Append(@, TreeLine(entry, TRUE)),
                                             !.stack = Append(@, entry)]
            ELSE
              LET f == FileAt(walk.disk, entry)
                  tree == Append(walk.tree, TreeLine(entry, FALSE))
                  result == check(walk.subdir, walk.gitignore, entry, f.size)
              IN IF f.content = "vanished"
                   THEN walk' = [walk EXCEPT !.seen = seen, !.tree = tree,
                                             !.excluded = @ + 1]
                 ELSE IF ~ result.included \/ f.content \in {"nul", "unreadable"}
                   THEN walk' = [walk EXCEPT !.seen = seen, !.tree = tree,
                                             !.checked = @ \cup {entry},
                                             !.excluded = @ + 1]
                 ELSE walk' = [walk EXCEPT
                                 !.seen = seen, !.tree = tree,
                                 !.checked = @ \cup {entry},
                                 !.files = Append(@, [relativePath |-> entry,
                                                      content |-> f.content,
                                                      sizeBytes |-> f.size,
                                                      highSignal |-> result.highSignal])]
  /\ UNCHANGED << scan, pc, prdContent, faultsLeft, err, wr, loc, hist, bg, reader, call, store, poller >>

\* the loop of walkDirectory is over: the call returns to the directory above
WalkReturn ==
  /\ walk.stage = "walking"
  /\ walk.stack # << >>
  /\ Entries(walk.disk, walk.stack[Len(walk.stack)]) \subseteq walk.seen
  /\ walk' = [walk EXCEPT !.stack = SubSeq(@, 1, Len(@) - 1)]
  /\ UNCHANGED << scan, pc, prdContent, faultsLeft, err, wr, loc, hist, bg, reader, call, store, poller >>

\* collectFiles after the walk: sort the files and the tree, return
CollectReturn ==
  /\ walk.stage = "walking"
  /\ walk.stack = << >>
  /\ walk' = [walk EXCEPT
                !.stage = "returned",
                !.result = [files |-> sortFiles(walk.files),
                            tree |-> sortTree(walk.tree),
                            excludedCount |-> walk.excluded,
                            totalSizeBytes |-> totalSize(walk.files)]]
  /\ UNCHANGED << scan, pc, prdContent, faultsLeft, err, wr, loc, hist, bg, reader, call, store, poller >>

NextCollect ==
  \/ WalkEntry
  \/ WalkReturn
  \/ CollectReturn

\* one collectFiles call on a project directory
SpecCollect == InitCollect /\ [][NextCollect]_vars

\* ============================================================== the parser
\* longest body of the manifest section of a raw response
MaxBody == 2

\* the texts of at most n tokens, non-blank ("t") or white space ("_")
RECURSIVE Bodies(_)
Bodies(n) ==
  IF n = 0 THEN {<< >>}
  ELSE Bodies(n - 1) \cup
       {Append(b, c) : b \in {x \in Bodies(n - 1) : Len(x) = n - 1}, c \in {"t", "_"}}

DocKinds == {"agent", "human", "drift"}

\* what a response may hold for one document: nothing, the section between
\* its delimiters, the section cut off before its end delimiter, the end
\* delimiter ahead of the start delimiter, the document under its heading
\* without delimiters
SectionForms(k, n) ==
  {<< >>}
    \cup {<< DELIMITERS[k].start >> \o b \o << DELIMITERS[k].end >> : b \in Bodies(n)}
    \cup {<< DELIMITERS[k].start >> \o b : b \in Bodies(n)}
    \cup {<< DELIMITERS[k].end, "t", DELIMITERS[k].start, "t" >>}
    \cup {<< HEADERS[k] >> \o b : b \in Bodies(n)}

\* the raw responses: an optional preamble, then the manifest and the human
\* section in either order, then the drift section
RawOutputs ==
  {pre \o first \o second \o d :
     pre \in {<< >>, << "t" >>},
     first \in SectionForms("agent", MaxBody) \cup SectionForms("human", 1),
     second \in SectionForms("agent", MaxBody) \cup SectionForms("human", 1),
     d \in SectionForms("drift", 1)}

WellFormed(rawOutput) ==
  \A k \in DocKinds :
    \A tok \in {DELIMITERS[k].start, DELIMITERS[k].end, HEADERS[k]} :
      Cardinality({i \in 1..Len(rawOutput) : rawOutput[i] = tok}) <= 1

InitParse ==
  /\ scan = createScan
  /\ pc = "post_upload"
  /\ prdContent = NULL
  /\ faultsLeft = MaxStoreFaults
  /\ err = NoMsg
  /\ wr = [label |-> "LLM call", attempt |-> 0, lastError |-> NoErr]
  /\ loc = NoLocals
  /\ hist = NoHistory
  /\ bg = [err |-> NoMsg, started |-> FALSE, uploadsDeleted |-> FALSE, rejected |-> FALSE]
  /\ reader = << >>
  /\ walk = NoWalk
  /\ store = NoStore
  /\ poller = NoPoller
  /\ \E rawOutput \in {r \in RawOutputs : WellFormed(r)}, expect \in BOOLEAN :
       call = [stage |-> "called", rawOutput |-> rawOutput, expectDrift |-> expect,
               result |-> NoParse]

\* parseLlmOutput(rawOutput, expectDrift) returns
ParseCall ==
  /\ call.stage = "called"
  /\ call' = [call EXCEPT !.stage = "returned",
                          !.result = parseLlmOutput(call.rawOutput, call.expectDrift)]
  /\ UNCHANGED << scan, pc, prdContent, faultsLeft, err, wr, loc, hist, bg, reader, walk, store, poller >>

NextParse == ParseCall

\* one parseLlmOutput call on a raw response
SpecParse == InitParse /\ [][NextParse]_vars

\* =============================================================== properties
\* processScan's promise has settled
Finished == hist.outcome # "none"

\* no persistence call has thrown in this execution
NoStoreFault == faultsLeft = MaxStoreFaults

\* the 'Retrying' lines of one withRetry call, in log order
RetryLines(l) ==
  SelectSeq(scan.progressLog, LAMBDA x : x.kind = "retry" /\ x.a = l)

\* the codes whose LlmError carries retryable = false
NonRetryableCodes ==
  {"AUTH_ERROR", "INVALID_REQUEST", "CONTENT_FILTER", "CONTEXT_LENGTH", "UNKNOWN"}

IsNonRetryable(e) == e.isLlm /\ e.code \in NonRetryableCodes

\* C1: the status of a scan record changes only along
\* pending -> processing -> {completed, partial, failed}; in particular, once
\* the record holds completed, partial or failed, no later write (by
\* processScan, by its catch block, or by the runner's last-resort handler)
\* changes the status again.  The formula is that last clause.
C1_TerminalStatusFinal ==
  [][scan.status \in Terminal => scan'.status = scan.status]_vars

\* C2: when processScan finishes its success path the stored status is
\* partial if the parser flagged partial, or the finish reason signalled
\* truncation, or the secondary pass failed to produce the drift document,
\* and completed only when none of these holds.
C2_StoredFinalStatus ==
  (hist.outcome = "resolved" /\ ~hist.caught) =>
     scan.status = IF \/ loc.parsed.partial
                      \/ wasTruncated(loc)
                      \/ (hist.driftStarted > 0 /\ Falsy(loc.driftMd))
                   THEN "partial" ELSE "completed"

\* C3: processScan never rejects to its caller, also when a persistence
\* operation fails while another failure is being handled: the error is
\* caught, its message is written to errorMessage with status failed and to
\* the progress log, and the promise resolves.
C3_NeverRejects ==
  /\ hist.outcome # "rejected"
  /\ (hist.caught /\ hist.outcome = "resolved") =>
       /\ scan.status = "failed"
       /\ scan.errorMessage = err
       /\ InSeq(Line("scan_failed", err.text, err.detail, 0, 0, 0), scan.progressLog)

\* C4: after the status has been written to a terminal value the
\* orchestrator writes no field of the record again.  The formula is the
\* claim for status, the output documents, tokenUsage and errorMessage
\* (the progress log is left out of it: the closing line is appended after
\* the terminal write).
C4_TerminalRecordFrozen ==
  [][(scan.status \in Terminal /\ pc # "bg_catch") =>
       /\ scan'.status = scan.status
       /\ scan'.errorMessage = scan.errorMessage
       /\ scan'.outputAgentMd = scan.outputAgentMd
       /\ scan'.outputHumanMd = scan.outputHumanMd
       /\ scan'.outputDriftMd = scan.outputDriftMd
       /\ scan'.tokenUsage = scan.tokenUsage]_vars

\* C5: for a scan whose assembled prompt makes checkContextLimit return
\* exceedsLimit = true, generateWithLlm is invoked zero times, no retry line
\* is logged, the scan never holds completed or partial, and, in an
\* execution where no persistence call throws, processScan ends the scan
\* failed with the context-window message.
C5_ContextOverflowFailsFast ==
  (loc.checked /\ loc.tokenCheck.exceedsLimit) =>
     /\ \A l \in Labels : hist.calls[l] = 0 /\ RetryLines(l) = << >>
     /\ scan.status \notin {"completed", "partial"}
     /\ (Finished /\ NoStoreFault) =>
          /\ hist.outcome = "resolved"
          /\ scan.status = "failed"
          /\ scan.errorMessage = ContextWindowExceeded
          /\ ~hist.saved

C5_Witness ==
  /\ loc.checked /\ loc.tokenCheck.exceedsLimit
  /\ Finished /\ NoStoreFault
  /\ scan.status = "failed"
  /\ scan.errorMessage = ContextWindowExceeded

\* C6 as stated: when the operation passed to withRetry fails with an
\* LlmError whose retryable flag is false, the operation has been invoked
\* exactly once, no 'Retrying' line is logged, no backoff delay is taken,
\* that same error is rethrown, and the scan ends failed (the last two in an
\* execution where no persistence call throws).  The failing invocation is
\* taken to be the first one.
C6_Original ==
  \A l \in Labels :
    IsNonRetryable(hist.first[l]) =>
      /\ hist.calls[l] = 1
      /\ RetryLines(l) = << >>
      /\ hist.delays[l] = << >>
      /\ (NoStoreFault /\ ~(pc = "wr_fail" /\ wr.label = l)) =>
           /\ hist.exit[l] = "nonretryable"
           /\ hist.thrown[l] = hist.first[l]
      /\ (NoStoreFault /\ Finished) => scan.status = "failed"

\* C6, amended: the attempt on which the operation fails with a
\* non-retryable LlmError is the last one: no 'Retrying' line and no backoff
\* follow it (a failure on the first attempt leaves exactly one invocation,
\* no 'Retrying' line and no delay), and, in an execution where no
\* persistence call throws, that same error is rethrown after one
\* 'failed' line; the scan then ends failed with the user-facing message
\* when the operation is the primary LLM call, and does not end failed when
\* it is the drift analysis.
C6_NonRetryableFailsAtOnce ==
  \A l \in Labels :
    /\ IsNonRetryable(hist.first[l]) =>
         hist.calls[l] = 1 /\ RetryLines(l) = << >> /\ hist.delays[l] = << >>
    /\ IsNonRetryable(hist.lastFailure[l]) =>
         /\ Len(RetryLines(l)) = hist.calls[l] - 1
         /\ Len(hist.delays[l]) = hist.calls[l] - 1
         /\ hist.exit[l] \in {"none", "nonretryable", "logfault"}
         /\ (NoStoreFault /\ ~(pc = "wr_fail" /\ wr.label = l)) =>
              /\ hist.exit[l] = "nonretryable"
              /\ hist.thrown[l] = hist.lastFailure[l]
              /\ InSeq(Line("call_failed", l, hist.lastFailure[l].code, 0, 0, 0),
                       scan.progressLog)
         /\ (NoStoreFault /\ Finished) =>
              IF l = "LLM call"
              THEN /\ scan.status = "failed"
                   /\ scan.errorMessage = getUserFacingLlmMessage(hist.lastFailure[l])
              ELSE scan.status \in {"completed", "partial"}

C6_Witness ==
  /\ IsNonRetryable(hist.first["LLM call"])
  /\ hist.exit["LLM call"] = "nonretryable"
  /\ hist.calls["LLM call"] = 1
  /\ Finished /\ NoStoreFault
  /\ scan.status = "failed"

\* C7: withRetry invokes its operation at most 3 times; before the k-th
\* retry (k = 1, 2) it appends exactly one line naming attempt k of 3 and
\* then waits 2000 * 2^(k-1) ms; an operation that succeeds on the third
\* attempt returns with exactly two retry lines logged, and one that fails
\* retryably on all 3 attempts rethrows the last error unchanged after
\* exactly 3 invocations.
C7_RetrySchedule ==
  \A l \in Labels :
    LET lines == RetryLines(l)
        delays == hist.delays[l]
    IN /\ hist.calls[l] <= 3
       /\ IsPrefix(delays, << 2000, 4000 >>)
       /\ \A k \in 1..Len(lines) :
            lines[k].n = k /\ lines[k].of = 3 /\ lines[k].sec = Pow2(k)
       /\ Len(delays) <= Len(lines) /\ Len(lines) <= Len(delays) + 1
       /\ (pc = "wr_delay" /\ wr.label = l) => Len(lines) = Len(delays) + 1
       /\ (pc = "wr_call" /\ wr.label = l) =>
            /\ hist.calls[l] = wr.attempt
            /\ Len(lines) = wr.attempt
            /\ Len(delays) = wr.attempt
       /\ (hist.exit[l] = "ok" /\ hist.calls[l] = 3) =>
            Len(lines) = 2 /\ delays = << 2000, 4000 >>
       /\ hist.exit[l] = "exhausted" =>
            /\ hist.calls[l] = 3
            /\ Len(lines) = 2 /\ delays = << 2000, 4000 >>
            /\ ~IsNonRetryable(hist.lastFailure[l])
            /\ hist.thrown[l] = hist.lastFailure[l]

C7_Witness ==
  /\ hist.exit["LLM call"] = "ok"
  /\ hist.calls["LLM call"] = 3
  /\ Len(RetryLines("LLM call")) = 2
  /\ hist.exit["Drift analysis"] = "exhausted"
  /\ hist.calls["Drift analysis"] = 3

\* the secondary drift pass has failed: a non-retryable error, or retryable
\* errors on every attempt
DriftPassFailed == hist.exit["Drift analysis"] \in {"nonretryable", "exhausted"}

DriftFailedLine ==
  Line("drift_failed", hist.thrown["Drift analysis"].msg.text,
       hist.thrown["Drift analysis"].msg.detail, 0, 0, 0)

\* C8 as stated: a failure of the secondary drift pass never makes the scan
\* failed: the failure is appended to the progress log, the primary
\* documents and the primary token usage are persisted, and the record ends
\* in a non-failed terminal status with outputDriftMd = null (in an
\* execution where no persistence call throws).
C8_Original ==
  (DriftPassFailed /\ NoStoreFault) =>
     /\ scan.status # "failed"
     /\ pc # "drift_failed" => InSeq(DriftFailedLine, scan.progressLog)
     /\ Finished =>
          /\ scan.status \in {"completed", "partial"}
          /\ scan.outputAgentMd = loc.parsed.agentMd
          /\ scan.outputHumanMd = loc.parsed.humanMd
          /\ scan.tokenUsage = PrimaryUsage
          /\ scan.outputDriftMd = NullDoc

\* C8, amended: as stated, except that the record ends with no drift
\* document: outputDriftMd is null, or the empty string when the primary
\* response carried an empty drift section.
C8_DriftFailureNonFatal ==
  (DriftPassFailed /\ NoStoreFault) =>
     /\ scan.status # "failed"
     /\ pc # "drift_failed" => InSeq(DriftFailedLine, scan.progressLog)
     /\ Finished =>
          /\ scan.status \in {"completed", "partial"}
          /\ scan.outputAgentMd = loc.parsed.agentMd
          /\ scan.outputHumanMd = loc.parsed.humanMd
          /\ scan.tokenUsage = PrimaryUsage
          /\ scan.outputDriftMd \in {NullDoc, << >>}
          /\ scan.outputDriftMd = loc.parsed.driftMd

C8_Witness ==
  /\ DriftPassFailed /\ NoStoreFault /\ Finished
  /\ scan.status \in {"completed", "partial"}
  /\ scan.outputDriftMd = NullDoc
  /\ scan.tokenUsage = PrimaryUsage

\* a reference document was attached and the drift document is absent after
\* parsing the primary response
DriftAbsentAfterParsing ==
  prdContent \notin {NULL, ""} /\ loc.isParsed /\ Falsy(loc.parsed.driftMd)

C10_ReaderSeesPrefix ==
  [][IsPrefix(reader, reader') /\ IsPrefix(scan.progressLog, scan'.progressLog)]_vars

C10_Witness ==
  /\ Len(reader) >= 2
  /\ Len(scan.progressLog) > Len(reader)

\* ------------------------------------------------------------------ C11
\* a name that is ".env" or begins with ".env."
IsDotEnvName(name) ==
  name = <<"", "env">> \/ (Len(name) >= 3 /\ name[1] = "" /\ name[2] = "env")

FilesOf(files) == {files[i].relativePath : i \in 1..Len(files)}

\* C11: a file whose name is ".env" or begins with ".env.", at any depth, is
\* never answered included = true by the filter, whatever the size, the
\* subdirectory scope and the .gitignore rules, and is never among the files
\* collected so far nor among the files of the CollectionResult
C11_EnvNeverCollected ==
  walk.stage # "none" =>
    /\ \A f \in walk.disk :
         IsDotEnvName(basename(f.path)) =>
           \A sizeBytes \in {0, f.size, SIZE_THRESHOLD, SIZE_THRESHOLD + 1} :
             ~ check(walk.subdir, walk.gitignore, f.path, sizeBytes).included
    /\ \A path \in FilesOf(walk.files) \cup FilesOf(walk.result.files) :
         ~ IsDotEnvName(basename(path))

\* a finished collection of a project scoped to config/, with a .gitignore
\* that does not ignore config/.env.local: the filter was asked about the
\* file and it was counted as excluded
C11_Witness ==
  /\ walk.stage = "returned"
  /\ walk.subdir = << <<"config">> >>
  /\ walk.gitignore.present
  /\ ConfigEnvLocal \notin walk.gitignore.ignores
  /\ ConfigEnvLocal \in walk.checked
  /\ walk.result.excludedCount >= 1

\* ------------------------------------------------------------------ C12
\* C12: every invocation of processScan that has run to its end, whether
\* its external calls returned or threw, has left the scan record in one of
\* completed, partial, failed, and never in pending or processing.
C12_EndsTerminal == Finished => scan.status \in Terminal

\* ------------------------------------------------------------------ C13
\* C13: for an input error (no file left after filtering; a request whose
\* upload or attachment is refused while the handler prepares the scan) the
\* status of the record is not `processing` at any point: the formula is the
\* claim at the moment the error has been raised and at every state after a
\* refused preparation.
C13_InputErrorNeverProcessing ==
  /\ pc = "post_failed" => scan.status # "processing"
  /\ (hist.caught /\ err = NoFilesFound) => scan.status # "processing"

\* ------------------------------------------------------------------ C14
\* the fields createScan gave the record and only saveScanOutputs rewrites
OutputsAsCreated ==
  /\ scan.outputAgentMd = createScan.outputAgentMd
  /\ scan.outputHumanMd = createScan.outputHumanMd
  /\ scan.outputDriftMd = createScan.outputDriftMd
  /\ scan.fileCount = createScan.fileCount
  /\ scan.tokenUsage = createScan.tokenUsage

\* C14: when a step of processScan before the final outputs write has thrown
\* into the catch block, the output documents, fileCount and tokenUsage of
\* the record hold their creation-time values; and, in an execution where no
\* persistence call throws, the status goes from processing to failed with
\* nothing in between, and processScan ends with status failed, the message
\* of the exception in errorMessage and the failure line in the progress log
C14_ThrowBeforeSaveFails ==
  (hist.caught /\ ~hist.saved) =>
    /\ OutputsAsCreated
    /\ NoStoreFault =>
         /\ scan.status \in {"processing", "failed"}
         /\ Finished =>
              /\ scan.status = "failed"
              /\ scan.errorMessage = err
              /\ InSeq(Line("scan_failed", err.text, err.detail, 0, 0, 0),
                       scan.progressLog)

\* the primary call gave up after its retries and processScan has ended
C14_Witness ==
  /\ Finished /\ NoStoreFault
  /\ hist.caught /\ ~hist.saved
  /\ hist.exit["LLM call"] = "exhausted"
  /\ scan.status = "failed"
  /\ scan.errorMessage = err
  /\ OutputsAsCreated


\* ------------------------------------------------------------------ C15
Occurs(tok, text) == \E i \in 1..Len(text) : text[i] = tok

FirstAt(tok, text) ==
  CHOOSE i \in 1..Len(text) : text[i] = tok /\ \A j \in 1..(i - 1) : text[j] # tok

\* the documents a call expects
ExpectedDocs(expect) == IF expect THEN DocKinds ELSE {"agent", "human"}

\* the start sentinel of document k occurs and its end sentinel does not
\* occur after it
CutOff(k, text) ==
  /\ Occurs(DELIMITERS[k].start, text)
  /\ \A i \in (FirstAt(DELIMITERS[k].start, text) + 1)..Len(text) :
       text[i] # DELIMITERS[k].end

DocOf(result, k) ==
  CASE k = "agent" -> result.agentMd
    [] k = "human" -> result.humanMd
    [] k = "drift" -> result.driftMd

\* an empty document: the empty text, or null for the drift document
EmptyDoc(doc) == doc = << >> \/ doc = NullDoc

Returned == call.stage = "returned"

\* C15: for every raw response and either value of expectDrift,
\* parseLlmOutput returns partial = true exactly when the section of an
\* expected document was cut off (start sentinel without end sentinel) or an
\* expected document is empty in the result
C15_PartialExactly ==
  Returned =>
    (call.result.partial <=>
       \/ \E k \in ExpectedDocs(call.expectDrift) : CutOff(k, call.rawOutput)
       \/ \E k \in ExpectedDocs(call.expectDrift) : EmptyDoc(DocOf(call.result, k)))

\* a response cut off inside the human section, both primary documents
\* non-empty in the result
C15_Witness ==
  /\ Returned
  /\ call.result.partial
  /\ CutOff("human", call.rawOutput)
  /\ ~ CutOff("agent", call.rawOutput)
  /\ \A k \in ExpectedDocs(call.expectDrift) : ~ EmptyDoc(DocOf(call.result, k))


\* ------------------------------------------------------------------ C16
\* a text without the white space at its two ends
RECURSIVE Trimmed(_)
Trimmed(text) ==
  IF text = << >> THEN << >>
  ELSE IF text[1] = "_" THEN Trimmed(Tail(text))
  ELSE IF text[Len(text)] = "_" THEN Trimmed(SubSeq(text, 1, Len(text) - 1))
  ELSE text

\* all the text after the start sentinel of document k
AfterBegin(k, text) ==
  SubSeq(text, FirstAt(DELIMITERS[k].start, text) + 1, Len(text))

TruncationWarning(k) ==
  CASE k = "agent" -> "agent truncated"
    [] k = "human" -> "human truncated"
    [] k = "drift" -> "drift truncated"

\* C16: for an expected document whose BEGIN sentinel occurs without its END
\* sentinel after it, with non-blank text after the BEGIN sentinel,
\* parseLlmOutput returns as that document all the text after the BEGIN
\* sentinel, trimmed, puts the truncation warning of that document in
\* warnings and sets partial = true
C16_TruncationSalvage ==
  Returned =>
    \A k \in ExpectedDocs(call.expectDrift) :
      (CutOff(k, call.rawOutput) /\ Trimmed(AfterBegin(k, call.rawOutput)) # << >>) =>
        /\ DocOf(call.result, k) = Trimmed(AfterBegin(k, call.rawOutput))
        /\ InSeq(TruncationWarning(k), call.result.warnings)
        /\ call.result.partial

\* the human section and the drift section of a response are both cut off:
\* the human document runs on through the drift section
C16_Witness ==
  /\ Returned
  /\ call.expectDrift
  /\ CutOff("drift", call.rawOutput)
  /\ call.result.driftMd = << "t" >>
  /\ ~ CutOff("agent", call.rawOutput)
  /\ CutOff("human", call.rawOutput)
  /\ Len(call.result.humanMd) > 2


\* ------------------------------------------------------------------ C17
\* the END sentinel of document k occurs after its BEGIN sentinel
Paired(k, text) == Occurs(DELIMITERS[k].start, text) /\ ~ CutOff(k, text)

\* the text between the BEGIN sentinel of document k and the first END
\* sentinel after it
Between(k, text) ==
  LET b == FirstAt(DELIMITERS[k].start, text)
      e == CHOOSE i \in (b + 1)..Len(text) :
             /\ text[i] = DELIMITERS[k].end
             /\ \A j \in (b + 1)..(i - 1) : text[j] # DELIMITERS[k].end
  IN SubSeq(text, b + 1, e - 1)

PairedAroundText(k, text) ==
  Paired(k, text) /\ Trimmed(Between(k, text)) # << >>

\* C17: for a response whose manifest and human sentinels are paired around
\* non-blank content, with no reference document expected, parseLlmOutput
\* returns each of the two documents equal to the trimmed text between its
\* sentinels, partial = false, no warning and no missing section
C17_PairedRoundTrip ==
  (/\ Returned
   /\ ~ call.expectDrift
   /\ PairedAroundText("agent", call.rawOutput)
   /\ PairedAroundText("human", call.rawOutput)) =>
    /\ call.result.agentMd = Trimmed(Between("agent", call.rawOutput))
    /\ call.result.humanMd = Trimmed(Between("human", call.rawOutput))
    /\ ~ call.result.partial
    /\ call.result.warnings = << >>
    /\ call.result.missingSections = << >>

\* a preamble, then the two sections, the manifest's content padded with
\* white space
C17_Witness ==
  /\ Returned
  /\ ~ call.expectDrift
  /\ PairedAroundText("agent", call.rawOutput)
  /\ PairedAroundText("human", call.rawOutput)
  /\ call.rawOutput[1] = "t"
  /\ Between("agent", call.rawOutput) = << "_", "t" >>
  /\ call.result.agentMd = << "t" >>


\* ------------------------------------------------------------------ C18
\* delimiter extraction gave nothing for document k: no BEGIN sentinel, or
\* only white space after it
MissingAfterDelimiters(k, text) ==
  \/ ~ Occurs(DELIMITERS[k].start, text)
  \/ Paired(k, text) /\ Trimmed(Between(k, text)) = << >>
  \/ CutOff(k, text) /\ Trimmed(AfterBegin(k, text)) = << >>

\* the text from the heading of document k up to the next heading of any of
\* the three documents, or the end of the text, trimmed
HeadingSpan(k, text) ==
  LET h == FirstAt(HEADERS[k], text)
      later == {i \in (h + 1)..Len(text) : \E d \in DocKinds : text[i] = HEADERS[d]}
      stop == IF later = {} THEN Len(text) + 1
              ELSE CHOOSE i \in later : \A j \in later : i <= j
  IN Trimmed(SubSeq(text, h, stop - 1))

\* C18: whenever an expected document is still missing after delimiter
\* extraction (also when only the drift document of an expected reference is
\* missing and both primary documents were extracted), parseLlmOutput
\* recovers each missing expected document whose heading occurs in the
\* response as the span from that heading to the next recognised heading or
\* the end of the text
C18_HeaderSniffing ==
  Returned =>
    \A k \in ExpectedDocs(call.expectDrift) :
      (MissingAfterDelimiters(k, call.rawOutput) /\ Occurs(HEADERS[k], call.rawOutput)) =>
        DocOf(call.result, k) = HeadingSpan(k, call.rawOutput)


\* ------------------------------------------------------------------ C19
NoSentinel(text) ==
  \A k \in DocKinds :
    ~ Occurs(DELIMITERS[k].start, text) /\ ~ Occurs(DELIMITERS[k].end, text)

\* C19: for a response without any sentinel that contains the headings of
\* the manifest and of the human document, parseLlmOutput returns two
\* non-empty documents, each the span from its own heading to the next
\* recognised heading or the end of the text, and does not use the whole
\* response as the manifest
C19_HeaderFallback ==
  (/\ Returned
   /\ NoSentinel(call.rawOutput)
   /\ Occurs(HEADERS.agent, call.rawOutput)
   /\ Occurs(HEADERS.human, call.rawOutput)) =>
    /\ call.result.agentMd = HeadingSpan("agent", call.rawOutput)
    /\ call.result.humanMd = HeadingSpan("human", call.rawOutput)
    /\ call.result.agentMd # << >>
    /\ call.result.humanMd # << >>
    /\ ~ InSeq("using entire response", call.result.warnings)
    /\ call.result.agentMd # Trimmed(call.rawOutput)

\* a preamble, the human document under its heading, then the manifest and
\* the drift document under theirs
C19_Witness ==
  /\ Returned
  /\ NoSentinel(call.rawOutput)
  /\ Occurs(HEADERS.agent, call.rawOutput)
  /\ Occurs(HEADERS.human, call.rawOutput)
  /\ Occurs(HEADERS.drift, call.rawOutput)
  /\ call.rawOutput[1] = "t"
  /\ FirstAt(HEADERS.human, call.rawOutput) < FirstAt(HEADERS.agent, call.rawOutput)
  /\ Len(call.result.agentMd) > 1
  /\ InSeq("delimiter parsing failed", call.result.warnings)


\* ------------------------------------------------------------------ C20
\* the project of the end-to-end scenario: src/index.ts (500 bytes),
\* node_modules/pkg/index.js (10 KB), .env (50 bytes), package.json (200
\* bytes), all of them text, no .gitignore, no subdirectory option
ScenarioDisk ==
  {File(SrcIndexTs, 500, "text"), File(NodeModulesIndexJs, 10240, "text"),
   File(EnvFile, 50, "text"), File(PackageJson, 200, "text")}

ScenarioReturned ==
  /\ walk.stage = "returned"
  /\ walk.disk = ScenarioDisk
  /\ walk.subdir = << >>
  /\ ~ walk.gitignore.present

\* the files of a result as pairs of path and highSignal
Listing(files) ==
  [i \in 1..Len(files) |-> << files[i].relativePath, files[i].highSignal >>]

ScenarioFiles == << << PackageJson, TRUE >>, << SrcIndexTs, FALSE >> >>

\* C20 as stated: the scenario returns package.json (high-signal) and then
\* src/index.ts (not high-signal), and excludedCount = 2
C20_Original ==
  ScenarioReturned =>
    /\ Listing(walk.result.files) = ScenarioFiles
    /\ walk.result.excludedCount = 2

\* C20, amended: the scenario returns package.json (high-signal) and then
\* src/index.ts (not high-signal), and excludedCount = 1: only .env is
\* counted, the file under node_modules is never reached
C20_ScenarioResult ==
  ScenarioReturned =>
    /\ Listing(walk.result.files) = ScenarioFiles
    /\ walk.result.excludedCount = 1

C20_Witness ==
  /\ ScenarioReturned
  /\ walk.checked = {EnvFile, PackageJson, SrcIndexTs}
  /\ Len(walk.result.files) = 2

\* ------------------------------------------------------------------ C21
\* every directory above a file lets the walk in
Reached(path) ==
  \A i \in 1..(Len(path) - 1) : shouldEnterDirectory(path[i])

\* the files one walk of the disk of w would push if readdir gave the
\* entries of every directory in code-unit order
RECURSIVE PushedInOrder(_, _)
PushedInOrder(w, i) ==
  IF i > Len(CodeUnitOrder) THEN << >>
  ELSE
    LET line == CodeUnitOrder[i]
        rest == PushedInOrder(w, i + 1)
    IN IF line.dir \/ ~ isFile(w.disk, line.path) \/ ~ Reached(line.path) THEN rest
       ELSE
         LET f == FileAt(w.disk, line.path)
             result == check(w.subdir, w.gitignore, f.path, f.size)
         IN IF ~ result.included \/ f.content \in {"nul", "unreadable", "vanished"}
              THEN rest
              ELSE << [relativePath |-> f.path, content |-> f.content,
                       sizeBytes |-> f.size, highSignal |-> result.highSignal] >>
                     \o rest

\* C21: in a CollectionResult the high-signal files precede the others,
\* within each of the two groups relativePath is strictly ascending, and the
\* sequence is the one any other enumeration order of the directory entries
\* gives for the same tree (here: the enumeration in code-unit order)
C21_OrderedAndReproducible ==
  walk.stage = "returned" =>
    LET files == walk.result.files
    IN /\ \A i, j \in 1..Len(files) :
            i < j => ~ (~ files[i].highSignal /\ files[j].highSignal)
       /\ \A i \in 1..(Len(files) - 1) :
            files[i].highSignal = files[i + 1].highSignal =>
              localeCompare(files[i].relativePath, files[i + 1].relativePath) < 0
       /\ files = sortFiles(PushedInOrder(walk, 1))

\* ------------------------------------------------------------------ C22
\* a path with a directory above it whose bare name is a noise directory or
\* ends in .egg-info
UnderNoise(path) ==
  \E i \in 1..(Len(path) - 1) : path[i] \in EXCLUDED_DIRS \/ isEggInfoDir(path[i])

LinesOf(tree) == {tree[i].path : i \in 1..Len(tree)}

\* C22: nothing that lies under a noise directory or a .egg-info directory,
\* at any depth, is ever enumerated by readdir, handed to the file filter,
\* pushed to the files or the tree of the walk, or returned in the files or
\* the tree of the CollectionResult
C22_NoiseNeverRead ==
  walk.stage # "none" =>
    /\ \A path \in walk.seen \cup walk.checked : ~ UnderNoise(path)
    /\ \A path \in FilesOf(walk.files) \cup LinesOf(walk.tree) : ~ UnderNoise(path)
    /\ walk.stage = "returned" =>
         \A path \in FilesOf(walk.result.files) \cup LinesOf(walk.result.tree) :
           ~ UnderNoise(path)

\* a returned walk of a disk that holds a file in a top-level .egg-info
\* directory and one in a build directory below src, while src itself was
\* entered and listed
C22_Witness ==
  /\ walk.stage = "returned"
  /\ isFile(walk.disk, EggInfoFile)
  /\ isFile(walk.disk, SrcBuildMainJs)
  /\ isFile(walk.disk, SrcIndexTs)
  /\ SrcIndexTs \in FilesOf(walk.result.files)
  /\ << <<"src">> >> \in LinesOf(walk.result.tree)

\* ---------------------------------------------- LLM gateway: classifyError
\* the status of a failure that carries none (undefined in the code), written
\* as 0, which is no HTTP status
Undefined == 0

\* phrases a raw failure's lower-cased message may hold, one or two for each
\* group of patterns classifyError looks for, and one it does not look for
Phrases ==
  {"rate limit", "quota", "timed out", "invalid api key", "blocked",
   "too long", "invalid", "overloaded"}

\* the patterns of classifyError that occur in a phrase
PatternsIn(phrase) ==
  CASE phrase = "invalid api key" -> {"invalid api key", "invalid"}
    [] OTHER -> {phrase}

\* lowerMsg.includes(pattern)
includes(lowerMsg, pattern) == \E phrase \in lowerMsg : pattern \in PatternsIn(phrase)

\* raw failures: the statusCode and status properties of the thrown value,
\* the first 4xx/5xx number written in its message, and the phrases of the
\* message
RawErrors ==
  [statusCode : {Undefined, 429, 500},
   status : {Undefined, 200, 400, 403},
   inMessage : {Undefined, 401, 404, 503},
   lowerMsg : SUBSET Phrases]

\* extractStatusFromMessage: the first 4xx or 5xx number of the message
extractStatusFromMessage(raw) == raw.inMessage

\* err.statusCode ?? err.status ?? extractStatusFromMessage(message)
StatusOf(raw) ==
  IF raw.statusCode # Undefined THEN raw.statusCode
  ELSE IF raw.status # Undefined THEN raw.status
  ELSE extractStatusFromMessage(raw)

\* new LlmError(message, code, provider, statusCode)
LlmError(code, statusCode) ==
  [code |-> code, statusCode |-> statusCode, retryable |-> retryable(code)]

\* faulty variant: the authentication patterns are tried before the timeout
\* patterns
classifyError_authBeforeTimeout(raw) ==
  LET statusCode == StatusOf(raw)
      lowerMsg == raw.lowerMsg
  IN IF statusCode = 429 \/ includes(lowerMsg, "rate limit") \/ includes(lowerMsg, "quota")
       THEN LlmError("RATE_LIMIT", 429)
     ELSE IF statusCode = 401 \/ statusCode = 403 \/ includes(lowerMsg, "invalid api key")
       THEN LlmError("AUTH_ERROR", IF statusCode = Undefined THEN 401 ELSE statusCode)
     ELSE IF includes(lowerMsg, "timed out")
       THEN LlmError("TIMEOUT", statusCode)
     ELSE IF includes(lowerMsg, "blocked")
       THEN LlmError("CONTENT_FILTER", statusCode)
     ELSE IF includes(lowerMsg, "too long")
       THEN LlmError("CONTEXT_LENGTH", IF statusCode = Undefined THEN 400 ELSE statusCode)
     ELSE IF statusCode = 400 \/ includes(lowerMsg, "invalid")
       THEN LlmError("INVALID_REQUEST", 400)
     ELSE IF statusCode # Undefined /\ statusCode >= 500
       THEN LlmError("SERVER_ERROR", statusCode)
     ELSE LlmError("UNKNOWN", statusCode)

\* classifyError, for the patterns that occur in Phrases
classifyError(raw) ==
  LET statusCode == StatusOf(raw)
      lowerMsg == raw.lowerMsg
  IN IF statusCode = 429 \/ includes(lowerMsg, "rate limit") \/ includes(lowerMsg, "quota")
       THEN LlmError("RATE_LIMIT", 429)
     ELSE IF includes(lowerMsg, "timed out")
       THEN LlmError("TIMEOUT", statusCode)
     ELSE IF statusCode = 401 \/ statusCode = 403 \/ includes(lowerMsg, "invalid api key")
       THEN LlmError("AUTH_ERROR", IF statusCode = Undefined THEN 401 ELSE statusCode)
     ELSE IF includes(lowerMsg, "blocked")
       THEN LlmError("CONTENT_FILTER", statusCode)
     ELSE IF includes(lowerMsg, "too long")
       THEN LlmError("CONTEXT_LENGTH", IF statusCode = Undefined THEN 400 ELSE statusCode)
     ELSE IF statusCode = 400 \/ includes(lowerMsg, "invalid")
       THEN LlmError("INVALID_REQUEST", 400)
     ELSE IF statusCode # Undefined /\ statusCode >= 500
       THEN LlmError("SERVER_ERROR", statusCode)
     ELSE LlmError("UNKNOWN", statusCode)

NoLlmError == [code |-> "", statusCode |-> Undefined, retryable |-> FALSE]

InitClassify ==
  /\ scan = createScan
  /\ pc = "post_upload"
  /\ prdContent = NULL
  /\ faultsLeft = MaxStoreFaults
  /\ err = NoMsg
  /\ wr = [label |-> "LLM call", attempt |-> 0, lastError |-> NoErr]
  /\ loc = NoLocals
  /\ hist = NoHistory
  /\ bg = [err |-> NoMsg, started |-> FALSE, uploadsDeleted |-> FALSE, rejected |-> FALSE]
  /\ reader = << >>
  /\ walk = NoWalk
  /\ store = NoStore
  /\ poller = NoPoller
  /\ \E raw \in RawErrors :
       call = [stage |-> "raised", raw |-> raw, result |-> NoLlmError]

\* generate catches the raw failure and throws classifyError(err, provider)
ClassifyCall ==
  /\ call.stage = "raised"
  /\ call' = [call EXCEPT !.stage = "classified", !.result = classifyError(call.raw)]
  /\ UNCHANGED << scan, pc, prdContent, faultsLeft, err, wr, loc, hist, bg, reader, walk, store, poller >>

NextClassify == ClassifyCall

\* one classifyError call on a raw failure
SpecClassify == InitClassify /\ [][NextClassify]_vars

\* ------------------------------------------------------------------ C23
\* the signals of the claim, read off the raw failure
RateLimitSignal(raw) ==
  StatusOf(raw) = 429 \/ raw.lowerMsg \cap {"rate limit", "quota"} # {}
TimeoutSignal(raw) == "timed out" \in raw.lowerMsg
AuthSignal(raw) == StatusOf(raw) \in {401, 403} \/ "invalid api key" \in raw.lowerMsg
ContentFilterSignal(raw) == "blocked" \in raw.lowerMsg
ContextLengthSignal(raw) == "too long" \in raw.lowerMsg
BadRequestSignal(raw) ==
  StatusOf(raw) = 400 \/ raw.lowerMsg \cap {"invalid", "invalid api key"} # {}
ServerErrorSignal(raw) == StatusOf(raw) \in {500, 503}

\* the signals in the order of the claim, each with its code
Priority(raw) ==
  << <<RateLimitSignal(raw), "RATE_LIMIT">>, <<TimeoutSignal(raw), "TIMEOUT">>,
     <<AuthSignal(raw), "AUTH_ERROR">>, <<ContentFilterSignal(raw), "CONTENT_FILTER">>,
     <<ContextLengthSignal(raw), "CONTEXT_LENGTH">>,
     <<BadRequestSignal(raw), "INVALID_REQUEST">>,
     <<ServerErrorSignal(raw), "SERVER_ERROR">>, <<TRUE, "UNKNOWN">> >>

\* C23: classifyError returns one code of the closed set, the code of the
\* first signal of the raw failure in the order rate-limit, timeout, auth,
\* content-filter, context-length, bad-request, server-error, unknown, and
\* the LlmError is retryable exactly for RATE_LIMIT, TIMEOUT and SERVER_ERROR
C23_FirstMatchClassification ==
  call.stage = "classified" =>
    LET order == Priority(call.raw)
        first == CHOOSE i \in 1..Len(order) :
                   order[i][1] /\ \A j \in 1..(i - 1) : ~ order[j][1]
    IN /\ call.result.code \in LlmErrorCode
       /\ call.result.code = order[first][2]
       /\ call.result.retryable =
            (call.result.code \in {"RATE_LIMIT", "TIMEOUT", "SERVER_ERROR"})

\* a failure with a timeout phrase, an authentication status, a content-filter
\* phrase and a 5xx number in its message is classified TIMEOUT and retryable
C23_Witness ==
  /\ call.stage = "classified"
  /\ ~ RateLimitSignal(call.raw)
  /\ TimeoutSignal(call.raw)
  /\ AuthSignal(call.raw)
  /\ ContentFilterSignal(call.raw)
  /\ call.raw.inMessage = 503
  /\ call.result.code = "TIMEOUT"
  /\ call.result.retryable

\* ------------------------------------------------- the file filter alone
\* paths the filter is asked about: data files of the four size-gated
\* extensions, configuration JSON files, and files the earlier rules exclude
FilterPaths ==
  {<< <<"data", "csv">> >>, << <<"DATA", "CSV">> >>, << <<"feed", "xml">> >>,
   << <<"pom", "xml">> >>, << <<"dump", "sql">> >>, << <<"data", "json">> >>,
   << <<"Package", "json">> >>, << <<"package", "json">> >>,
   << <<"", "eslintrc", "json">> >>, << <<"src">>, <<"tsconfig", "json">> >>,
   << <<"src">>, <<"data", "csv">> >>, << <<"package-lock", "json">> >>,
   << <<"", "env", "json">> >>, << <<"data", "csv", "swp">> >>,
   << <<"src">>, <<"index", "ts">> >>}

\* sizes around the threshold
FilterSizes ==
  {0, SIZE_THRESHOLD - 1, SIZE_THRESHOLD, SIZE_THRESHOLD + 1, 2 * SIZE_THRESHOLD}

InitFilter ==
  /\ scan = createScan
  /\ pc = "post_upload"
  /\ prdContent = NULL
  /\ faultsLeft = MaxStoreFaults
  /\ err = NoMsg
  /\ wr = [label |-> "LLM call", attempt |-> 0, lastError |-> NoErr]
  /\ loc = NoLocals
  /\ hist = NoHistory
  /\ bg = [err |-> NoMsg, started |-> FALSE, uploadsDeleted |-> FALSE, rejected |-> FALSE]
  /\ reader = << >>
  /\ walk = NoWalk
  /\ store = NoStore
  /\ poller = NoPoller
  /\ \E relativePath \in FilterPaths, sizeBytes \in FilterSizes,
        subdir \in {<< >>, << <<"src">> >>}, ignored \in BOOLEAN :
       call = [stage |-> "asked", subdir |-> subdir,
               gitignore |-> [present |-> ignored,
                              ignores |-> IF ignored THEN {relativePath} ELSE {}],
               relativePath |-> relativePath, sizeBytes |-> sizeBytes,
               result |-> Excluded]

\* filter.check(relativePath, sizeBytes) returns
FilterCall ==
  /\ call.stage = "asked"
  /\ call' = [call EXCEPT !.stage = "checked",
                          !.result = check(call.subdir, call.gitignore,
                                           call.relativePath, call.sizeBytes)]
  /\ UNCHANGED << scan, pc, prdContent, faultsLeft, err, wr, loc, hist, bg, reader, walk, store, poller >>

NextFilter == FilterCall

\* one FileFilter.check call
SpecFilter == InitFilter /\ [][NextFilter]_vars

\* ------------------------------------------------------------------ C24
\* rules 1 to 5 of the Filter Policy let the file of the call through: the
\* hard block, the subdirectory scope, the .gitignore rules, the name-based
\* and the extension-based exclusions
PassesRules1To5(c) ==
  LET filename == basename(c.relativePath)
  IN /\ ~ isHardBlocked(filename)
     /\ c.subdir # << >> => IsPrefix(c.subdir, c.relativePath)
     /\ ~ (c.gitignore.present /\ c.relativePath \in c.gitignore.ignores)
     /\ filename \notin LOCK_FILES \cup EXCLUDED_FILENAMES
     /\ ~ isEditorTempFile(filename)
     /\ \A suffix \in EXCLUDED_COMPOUND_EXTENSIONS \cup EXCLUDED_SUFFIXES :
          ~ endsWith(filename, suffix)
     /\ toLowerCase(extname(filename)) \notin EXCLUDED_EXTENSIONS

\* the file of the call is subject to the size rule
SizeGated(c) ==
  LET filename == basename(c.relativePath)
      ext == toLowerCase(extname(filename))
  IN \/ ext \in {<<"", "csv">>, <<"", "xml">>, <<"", "sql">>}
     \/ ext = <<"", "json">> /\ filename \notin CONFIG_JSON_NAMES

\* C24: a file that passes rules 1 to 5 and has extension .csv, .xml or .sql,
\* or extension .json and a name outside the configuration-JSON allow-list,
\* is included at 1,048,576 bytes and excluded at 1,048,577 bytes; a file
\* whose name is in the allow-list is included whatever its size
C24_SizeThreshold ==
  (call.stage = "checked" /\ PassesRules1To5(call)) =>
    /\ (SizeGated(call) /\ call.sizeBytes = 1048576) => call.result.included
    /\ (SizeGated(call) /\ call.sizeBytes = 1048577) => ~ call.result.included
    /\ basename(call.relativePath) \in CONFIG_JSON_NAMES => call.result.included

\* a .csv file with an upper-case extension that passed rules 1 to 5 and was
\* excluded at 1,048,577 bytes
C24_Witness ==
  /\ call.stage = "checked"
  /\ PassesRules1To5(call)
  /\ call.relativePath = << <<"DATA", "CSV">> >>
  /\ call.sizeBytes = 1048577
  /\ ~ call.result.included

\* ------------------------------------------------------------------ C25
\* C25: a file that passed the filter and whose decoded content has more
\* than 10% non-printable characters in its leading sample, with or without
\* a NUL character, is not in the files of the CollectionResult
C25_NonPrintableDropped ==
  walk.stage = "returned" =>
    \A f \in walk.disk :
      (/\ f.path \in walk.checked
       /\ check(walk.subdir, walk.gitignore, f.path, f.size).included
       /\ f.content \in {"nul", "control"})
        => f.path \notin FilesOf(walk.result.files)

\* ------------------------------------------------------------------ C26
\* C26: in a CollectionResult every relativePath of files is a line of tree,
\* and tree is sorted (Array.prototype.sort without a comparator: ascending
\* by code units)
C26_FilesInSortedTree ==
  walk.stage = "returned" =>
    LET tree == walk.result.tree
    IN /\ \A i \in 1..Len(walk.result.files) :
            TreeLine(walk.result.files[i].relativePath, FALSE) \in
              {tree[k] : k \in 1..Len(tree)}
       /\ \A i \in 1..(Len(tree) - 1) :
            Place(tree[i], CodeUnitOrder) <= Place(tree[i + 1], CodeUnitOrder)

\* a result whose tree lists, besides the one collected file, a file the
\* filter excluded and a file dropped for its NUL character
C26_Witness ==
  /\ walk.stage = "returned"
  /\ FilesOf(walk.result.files) = {PackageJson}
  /\ isFile(walk.disk, SrcIndexTs)
  /\ FileAt(walk.disk, SrcIndexTs).content = "nul"
  /\ {EnvFile, SrcIndexTs, PackageJson} \subseteq LinesOf(walk.result.tree)
  /\ walk.result.excludedCount = 2

\* ============================================= the scans of one user
\* requests of the user that are followed
MaxRequests == 3

MAX_SCANS_PER_USER == 100

\* the numbers of scans the user owns when the first request arrives; a
\* record is written as its createdAt stamp, and users.scanCount agrees with
\* the collection
InitialCounts == {0, MAX_SCANS_PER_USER - 1, MAX_SCANS_PER_USER}

IdleRequest == [kind |-> "none", pc |-> "idle", toDelete |-> {}, id |-> 0]

\* the k oldest of a set of records, by createdAt
Oldest(records, k) == {x \in records : Cardinality({y \in records : y < x}) < k}

InitStore ==
  /\ scan = createScan
  /\ pc = "post_upload"
  /\ prdContent = NULL
  /\ faultsLeft = MaxStoreFaults
  /\ err = NoMsg
  /\ wr = [label |-> "LLM call", attempt |-> 0, lastError |-> NoErr]
  /\ loc = NoLocals
  /\ hist = NoHistory
  /\ bg = [err |-> NoMsg, started |-> FALSE, uploadsDeleted |-> FALSE, rejected |-> FALSE]
  /\ reader = << >>
  /\ walk = NoWalk
  /\ call = NoCall
  /\ poller = NoPoller
  /\ \E n \in InitialCounts :
       store = [stage |-> "open", scans |-> 1..n, scanCount |-> n, clock |-> n + 1,
                req |-> [i \in 1..MaxRequests |-> IdleRequest],
                cap |-> [deleted |-> {}, before |-> {}]]

StoreUnchanged ==
  UNCHANGED << scan, pc, prdContent, faultsLeft, err, wr, loc, hist, bg, reader, walk,
               call, poller >>

\* a request of the user arrives: POST /api/scan, POST /api/scan/cli or
\* DELETE /api/scan/[id]
Arrive(i) ==
  /\ store.stage = "open"
  /\ store.req[i].pc = "idle"
  /\ \A j \in 1..(i - 1) : store.req[j].pc # "idle"
  /\ \E kind \in {"POST", "CLI", "DELETE"} :
       store' = [store EXCEPT !.req[i] = [IdleRequest EXCEPT !.kind = kind,
                                                             !.pc = "start"]]
  /\ StoreUnchanged

\* enforceScanLimit: the query for the user's scans, oldest first
EnforceRead(i) ==
  /\ store.stage = "open"
  /\ store.req[i].kind \in {"POST", "CLI"}
  /\ store.req[i].pc = "start"
  /\ LET count == Cardinality(store.scans)
     IN IF count < MAX_SCANS_PER_USER
          THEN store' = [store EXCEPT !.req[i].pc = "set"]
          ELSE store' = [store EXCEPT
                           !.req[i].pc = "commit",
                           !.req[i].toDelete =
                             Oldest(store.scans, count - MAX_SCANS_PER_USER + 1)]
  /\ StoreUnchanged

\* enforceScanLimit: batch.commit() deletes the documents of the snapshot
CapCommit(i) ==
  /\ store.stage = "open"
  /\ store.req[i].pc = "commit"
  /\ store' = [store EXCEPT !.scans = @ \ store.req[i].toDelete,
                            !.cap = [deleted |-> store.req[i].toDelete,
                                     before |-> store.scans],
                            !.req[i].pc = "sync"]
  /\ StoreUnchanged

\* enforceScanLimit: setScanCount(userId, MAX_SCANS_PER_USER - 1)
SetScanCount(i) ==
  /\ store.stage = "open"
  /\ store.req[i].pc = "sync"
  /\ store' = [store EXCEPT !.scanCount = MAX_SCANS_PER_USER - 1,
                            !.req[i].pc = "set"]
  /\ StoreUnchanged

\* createScan: docRef.set(data), createdAt the server's timestamp
DocSet(i) ==
  /\ store.stage = "open"
  /\ store.req[i].pc = "set"
  /\ store' = [store EXCEPT !.scans = @ \cup {store.clock},
                            !.clock = @ + 1,
                            !.req[i].id = store.clock,
                            !.req[i].pc = "created"]
  /\ StoreUnchanged

\* POST /api/scan: the upload or the reference-document step throws; the
\* catch deletes the uploads, marks the scan failed and answers the error
PreProcessingFails(i) ==
  /\ store.stage = "open"
  /\ store.req[i].kind = "POST"
  /\ store.req[i].pc = "created"
  /\ store' = [store EXCEPT !.req[i].pc = "done"]
  /\ StoreUnchanged

\* POST /api/scan and POST /api/scan/cli: incrementScanCount(user.uid), and the
\* response
IncrementScanCount(i) ==
  /\ store.stage = "open"
  /\ store.req[i].pc = "created"
  /\ store' = [store EXCEPT !.scanCount = @ + 1, !.req[i].pc = "done"]
  /\ StoreUnchanged

\* DELETE /api/scan/[id]: getScan(id) for the oldest or the newest scan of the
\* user, or for one that is gone (answered 404)
GetScan(i) ==
  /\ store.stage = "open"
  /\ store.req[i].kind = "DELETE"
  /\ store.req[i].pc = "start"
  /\ IF store.scans = {}
       THEN store' = [store EXCEPT !.req[i].pc = "done"]
       ELSE \E id \in Oldest(store.scans, 1)
                        \cup (store.scans \ Oldest(store.scans, Cardinality(store.scans) - 1)) :
              store' = [store EXCEPT !.req[i].id = id, !.req[i].pc = "delete"]
  /\ StoreUnchanged

\* deleteScan: one batch deletes the document and decrements scanCount
DeleteScan(i) ==
  /\ store.stage = "open"
  /\ store.req[i].pc = "delete"
  /\ store' = [store EXCEPT !.scans = @ \ {store.req[i].id},
                            !.scanCount = @ - 1,
                            !.req[i].pc = "done"]
  /\ StoreUnchanged

NextStore ==
  \E i \in 1..MaxRequests :
    \/ Arrive(i)
    \/ EnforceRead(i)
    \/ CapCommit(i)
    \/ SetScanCount(i)
    \/ DocSet(i)
    \/ PreProcessingFails(i)
    \/ IncrementScanCount(i)
    \/ GetScan(i)
    \/ DeleteScan(i)

\* the requests of one user against the scans collection and the users
\* document; the steps of different requests interleave at every await
SpecStore == InitStore /\ [][NextStore]_vars

\* ------------------------------------------------------------------ C27
\* every request that arrived has completed
Quiescent ==
  /\ store.stage = "open"
  /\ \A i \in 1..MaxRequests : store.req[i].pc \in {"idle", "done"}

\* C27: once the createScan and deleteScan operations of a user have
\* completed, interleaved ones included, the user owns at most 100 scan
\* records, and the records the cap deleted were the oldest by createdAt
C27_CapHolds ==
  Quiescent =>
    /\ Cardinality(store.scans) <= 100
    /\ LET removed == store.cap.deleted \cap store.cap.before
       IN removed = Oldest(store.cap.before, Cardinality(removed))

\* ------------------------------------------------------------------ C30
\* C30: once every scan-creating and scan-deleting request has completed,
\* the user's scanCount is the number of scan records the user owns
C30_ScanCountInSync ==
  Quiescent => store.scanCount = Cardinality(store.scans)

\* ================================================== the CLI's polling loop
POLL_INTERVAL_MS == 2000

\* 10 * 60 * 1000
MAX_POLL_DURATION_MS == 600000

\* a property of a parsed JSON value: undefined when the object has none
Field(object, name) == IF name \in DOMAIN object THEN object[name] ELSE "undefined"

\* the body of a 200 response of GET /api/scan/[id]: NextResponse.json({ scan })
ResponseBody(record) == [scan |-> record]

InitCliPoll ==
  /\ scan = createScan
  /\ pc = "post_upload"
  /\ prdContent = NULL
  /\ faultsLeft = MaxStoreFaults
  /\ err = NoMsg
  /\ wr = [label |-> "LLM call", attempt |-> 0, lastError |-> NoErr]
  /\ loc = NoLocals
  /\ hist = NoHistory
  /\ bg = [err |-> NoMsg, started |-> FALSE, uploadsDeleted |-> FALSE, rejected |-> FALSE]
  /\ reader = << >>
  /\ walk = NoWalk
  /\ call = NoCall
  /\ store = NoStore
  /\ poller = [stage |-> "polling", elapsed |-> 0, served |-> "none",
               result |-> "none", timedOut |-> FALSE]

PollerUnchanged ==
  UNCHANGED << pc, prdContent, faultsLeft, err, wr, loc, hist, bg, reader, walk, call,
               store >>

\* the scan's run moves the record on: processing, then completed (written by
\* saveScanOutputs) or failed (written by updateScanStatus)
RecordMoves ==
  /\ poller.stage = "polling"
  /\ \/ /\ scan.status = "pending"
        /\ scan' = updateScanStatus(scan, "processing", NoMsg)
     \/ /\ scan.status = "processing"
        /\ \/ scan' = [scan EXCEPT !.status = "completed", !.completedAt = TRUE]
           \/ scan' = updateScanStatus(scan, "failed", Msg("scan failed", ""))
  /\ UNCHANGED poller
  /\ PollerUnchanged

\* one turn of the loop of pollScanProgress in which the fetch succeeds: the
\* parsed body is taken as the ScanRecord, its status decides, and the loop
\* sleeps when it goes on
PollTurn ==
  /\ poller.stage = "polling"
  /\ poller.elapsed < MAX_POLL_DURATION_MS
  /\ LET body == ResponseBody(scan)
         status == Field(body, "status")
     IN IF status = "completed"
          THEN poller' = [poller EXCEPT !.stage = "returned", !.served = scan.status,
                                        !.result = "scan"]
        ELSE IF status = "failed"
          THEN poller' = [poller EXCEPT !.stage = "returned", !.served = scan.status,
                                        !.result = "null"]
        ELSE poller' = [poller EXCEPT !.served = scan.status,
                                      !.elapsed = @ + POLL_INTERVAL_MS]
  /\ UNCHANGED scan
  /\ PollerUnchanged

\* one turn in which the fetch throws or the response is not ok: sleep, retry
PollFails ==
  /\ poller.stage = "polling"
  /\ poller.elapsed < MAX_POLL_DURATION_MS
  /\ poller' = [poller EXCEPT !.served = "none", !.elapsed = @ + POLL_INTERVAL_MS]
  /\ UNCHANGED scan
  /\ PollerUnchanged

\* the loop condition fails: "Scan timed out after 10 minutes", return null
PollTimesOut ==
  /\ poller.stage = "polling"
  /\ poller.elapsed >= MAX_POLL_DURATION_MS
  /\ poller' = [poller EXCEPT !.stage = "returned", !.result = "null",
                              !.timedOut = TRUE]
  /\ UNCHANGED scan
  /\ PollerUnchanged

NextCliPoll ==
  \/ RecordMoves
  \/ PollTurn
  \/ PollFails
  \/ PollTimesOut

\* pollScanProgress against the record of the scan the CLI started
SpecCliPoll == InitCliPoll /\ [][NextCliPoll]_vars

\* ------------------------------------------------------------------ C28
\* C28: the poll that is served a record with a terminal status is the last
\* one: pollScanProgress has returned, the scan record for completed or
\* partial and null for failed, and it did not run to the 10-minute limit
C28_StopsAtTerminal ==
  (poller.stage # "none" /\ poller.served \in Terminal) =>
    /\ poller.stage = "returned"
    /\ ~ poller.timedOut
    /\ poller.result = IF poller.served = "failed" THEN "null" ELSE "scan"

\* ------------------------------------------------------------------ C29
\* C29: when a background run that started has finished, whatever its
\* outcome, deleteScanUploads(scanId) has been called
C29_UploadsDeletedAtEnd ==
  (bg.started /\ pc = "bg_done") => bg.uploadsDeleted

=============================================================================
